---------------------------- MODULE Spec2Model ----------------------------
(***************************************************************************)
(* Model of the arbitrage trade-execution engine:                          *)
(*   - dex_utils.find_router_info      (router directory)                  *)
(*   - trading.resilient_rpc_call      (retry / revert-payload decoding)   *)
(*   - trading._parse_receipt_for_amount_out (settlement verifier)         *)
(*   - trading.execute_trade           (two-leg orchestrator)              *)
(*   - main.analyze_and_trade / main.execute_trade (cooldown contract)     *)
(*                                                                         *)
(* Python strings that the code inspects character by character (venue     *)
(* identifiers, directory keys) are sequences of one-character strings.    *)
(***************************************************************************)
EXTENDS Integers, Sequences, FiniteSets, TLC

VARIABLES
    \* ---- trading.execute_trade --------------------------------------
    pc,          \* position inside trading.execute_trade ("Idle" = not running)
    args,        \* the arguments and configuration of the running attempt
    loc,         \* the local variables of execute_trade
    calls,       \* every on-chain call / signing step of the attempt, in order
    outcome,     \* how the last attempt ended (the line it printed / how it returned)
    \* ---- trading.resilient_rpc_call ---------------------------------
    rpc,         \* the state of one resilient_rpc_call execution
    \* ---- main.py (poller + cooldown) --------------------------------
    now,                     \* time.time()
    last_trade_attempt_ts,   \* main.py global
    mpc,                     \* position inside main.analyze_and_trade / execute_trade
    mloc,                    \* locals of main.execute_trade
    mcalls,                  \* on-chain calls of the running main.execute_trade
    last_eval,               \* history: the latest analyze_and_trade call
    starts,                  \* history: the value of every write of last_trade_attempt_ts
    ts_writes,               \* history: writes of last_trade_attempt_ts in the running attempt
    \* ---- functions applied to drawn inputs ---------------------------
    fn                       \* the latest application: its inputs and its result

tradeVars == <<pc, args, loc, calls, outcome>>
rpcVars   == <<rpc>>
mainVars  == <<now, last_trade_attempt_ts, mpc, mloc, mcalls, last_eval, starts, ts_writes>>
fnVars    == <<fn>>
vars      == <<pc, args, loc, calls, outcome, rpc,
               now, last_trade_attempt_ts, mpc, mloc, mcalls, last_eval, starts, ts_writes,
               fn>>

-----------------------------------------------------------------------------
(***************************************************************************)
(* Generic helpers                                                         *)
(***************************************************************************)
SetMin(S) == CHOOSE x \in S : \A y \in S : x <= y
SetMax(S) == CHOOSE x \in S : \A y \in S : x >= y

RECURSIVE Pow(_, _)
Pow(b, e) == IF e = 0 THEN 1 ELSE b * Pow(b, e - 1)

-----------------------------------------------------------------------------
(***************************************************************************)
(* Python str operations used by find_router_info                          *)
(***************************************************************************)
\* The upper-case letters below U+0100 and, at the same positions, what
\* str.lower() turns them into: A-Z, then U+00C0..U+00DE without the
\* multiplication sign U+00D7. Texts are made of characters below U+0100.
UpperCase ==
    << "A", "B", "C", "D", "E", "F", "G", "H", "I", "J", "K", "L", "M",
       "N", "O", "P", "Q", "R", "S", "T", "U", "V", "W", "X", "Y", "Z",
       "À", "Á", "Â", "Ã", "Ä", "Å", "Æ", "Ç", "È", "É", "Ê", "Ë", "Ì",
       "Í", "Î", "Ï", "Ð", "Ñ", "Ò", "Ó", "Ô", "Õ", "Ö", "Ø", "Ù", "Ú",
       "Û", "Ü", "Ý", "Þ" >>
LowerCase ==
    << "a", "b", "c", "d", "e", "f", "g", "h", "i", "j", "k", "l", "m",
       "n", "o", "p", "q", "r", "s", "t", "u", "v", "w", "x", "y", "z",
       "à", "á", "â", "ã", "ä", "å", "æ", "ç", "è", "é", "ê", "ë", "ì",
       "í", "î", "ï", "ð", "ñ", "ò", "ó", "ô", "õ", "ö", "ø", "ù", "ú",
       "û", "ü", "ý", "þ" >>

\* str.lower()
StrLower(s) ==
    [i \in 1..Len(s) |->
        IF \E k \in 1..Len(UpperCase) : UpperCase[k] = s[i]
          THEN LowerCase[CHOOSE k \in 1..Len(UpperCase) : UpperCase[k] = s[i]]
          ELSE s[i]]

\* The characters str.isspace() holds for, below U+0100: space, tab, newline,
\* carriage return, form feed, then (written as the characters themselves)
\* vertical tab U+000B, the separators U+001C..U+001F, U+0085 and U+00A0
Whitespace ==
    {" ", "\t", "\n", "\r", "\f", "", "", "", "", "", "", " "}

\* str.strip(): leading and trailing whitespace removed
StrStrip(s) ==
    LET keep == {i \in 1..Len(s) : s[i] \notin Whitespace}
    IN  IF keep = {} THEN <<>> ELSE SubSeq(s, SetMin(keep), SetMax(keep))

\* key.replace('-', '_')
StrReplaceDash(s) == [i \in 1..Len(s) |-> IF s[i] = "-" THEN "_" ELSE s[i]]

\* s.split('_')[0]
StrFirstPart(s) ==
    LET cut == {i \in 1..Len(s) : s[i] = "_"}
    IN  IF cut = {} THEN s ELSE SubSeq(s, 1, SetMin(cut) - 1)

\* Python `a in b` for strings: a is a contiguous substring of b
StrContains(b, a) ==
    \E k \in 0..(Len(b) - Len(a)) : SubSeq(b, k + 1, k + Len(a)) = a

-----------------------------------------------------------------------------
(***************************************************************************)
(* Venue identifiers and the router directory (config.DEX_ROUTERS)         *)
(***************************************************************************)
Str_uni    == <<"u", "n", "i">>
Str_uni_v2 == <<"u", "n", "i", "_", "v", "2">>
Str_uni_v3 == <<"u", "n", "i", "-", "v", "3">>
Str_aero   == <<"a", "e", "r", "o">>
Str_Aero   == <<" ", "A", "e", "r", "o">>
Str_inch   == <<"1", "i", "n", "c", "h">>
Str_odd    == <<"o", "d", "d">>
Str_cake   == <<"c", "a", "k", "e">>
Str_Uni    == <<"U", "n", "i">>
Str_Uni_v2 == <<"U", "n", "i", "_", "v", "2">>
Str_swap   == <<"s", "w", "a", "p">>
Str_base   == <<"b", "a", "s", "e">>
Str_baseswap == <<"b", "a", "s", "e", "s", "w", "a", "p">>
Str_UNI_accent == <<"Ü", "N", "I", "_", "V", "2">>
Str_BaseSwap == <<"\t", "", "B", "a", "s", "e", "S", "w", "a", "p", "\n">>

\* Python None for a router descriptor (find_router_info found nothing).
NoneInfo == [address |-> "None", version |-> 0, type |-> "None",
             factory |-> "None", quoter |-> "None"]

\* config.py: one entry per key, in insertion order; 'type', 'factory' and
\* 'quoter' are optional ("None" = key absent from the dict).
DEX_ROUTERS ==
    << [key |-> Str_uni_v2,
        info |-> [address |-> "RouterUniV2", version |-> 2, type |-> "None",
                  factory |-> "None", quoter |-> "None"]],
       [key |-> Str_uni_v3,
        info |-> [address |-> "RouterUniV3", version |-> 3, type |-> "None",
                  factory |-> "FactoryUniV3", quoter |-> "QuoterUniV3"]],
       [key |-> Str_aero,
        info |-> [address |-> "RouterAero", version |-> 2, type |-> "solidly",
                  factory |-> "FactoryAero", quoter |-> "None"]],
       [key |-> Str_inch,
        info |-> [address |-> "Router1inch", version |-> 6, type |-> "1inch",
                  factory |-> "None", quoter |-> "None"]],
       [key |-> Str_odd,
        info |-> [address |-> "RouterOdd", version |-> 4, type |-> "None",
                  factory |-> "None", quoter |-> "None"]] >>

\* The venue identifiers the price feed may supply (pool['dex']).
VenueIds == {Str_uni, Str_uni_v2, Str_Aero, Str_inch, Str_odd, Str_cake}

\* variant: ascending sort, then reversed - entries of equal version swap
RECURSIVE SortByVersionDesc_Unstable(_)
SortByVersionDesc_Unstable(s) ==
    IF Len(s) <= 1 THEN s
    ELSE LET rest == SortByVersionDesc_Unstable(Tail(s))
             x    == Head(s)
             k    == Cardinality({i \in 1..Len(rest) : rest[i].version >= x.version})
         IN  SubSeq(rest, 1, k) \o <<x>> \o SubSeq(rest, k + 1, Len(rest))

\* list.sort(key=version, reverse=True): stable, so entries of equal version
\* keep their directory order.
RECURSIVE SortByVersionDesc(_)
SortByVersionDesc(s) ==
    IF Len(s) <= 1 THEN s
    ELSE LET rest == SortByVersionDesc(Tail(s))
             x    == Head(s)
             k    == Cardinality({i \in 1..Len(rest) : rest[i].version > x.version})
         IN  SubSeq(rest, 1, k) \o <<x>> \o SubSeq(rest, k + 1, Len(rest))

\* variant: the first-part test is left out
RouterKeyMatches_KeyOnly(dex_id, key) == dex_id = key

\* variant: substring matching, as in main.find_router_info
RouterKeyMatches_Substring(dex_id, key) ==
    StrContains(key, dex_id) \/ StrContains(dex_id, key)

\* dex_utils.find_router_info, line 16: the match test for one directory key
RouterKeyMatches(dex_id, key) ==
    \/ dex_id = key
    \/ dex_id = StrFirstPart(StrReplaceDash(key))

\* dex_utils.find_router_info, lines 9-17: the matching infos in directory order
RECURSIVE PossibleMatches(_, _)
PossibleMatches(dex_id, routers) ==
    IF routers = <<>> THEN <<>>
    ELSE (IF RouterKeyMatches(dex_id, Head(routers).key)
            THEN <<Head(routers).info>> ELSE <<>>)
         \o PossibleMatches(dex_id, Tail(routers))

\* dex_utils.find_router_info(dex_id, routers)
find_router_info(dex_id, routers) ==
    LET id == StrStrip(StrLower(dex_id))
        possible_matches == PossibleMatches(id, routers)
    IN  IF possible_matches = <<>> THEN NoneInfo
        ELSE IF Len(possible_matches) = 1 THEN possible_matches[1]
        ELSE SortByVersionDesc(possible_matches)[1]

\* main.find_router_info(dex_id, routers): first key that contains the id or
\* is contained in it
RECURSIVE main_find_router_info(_, _)
main_find_router_info(dex_id, routers) ==
    IF routers = <<>> THEN NoneInfo
    ELSE IF \/ StrContains(Head(routers).key, dex_id)
            \/ StrContains(dex_id, Head(routers).key)
         THEN Head(routers).info
         ELSE main_find_router_info(dex_id, Tail(routers))

-----------------------------------------------------------------------------
(***************************************************************************)
(* Configuration (config.py) and the chain's answers                       *)
(***************************************************************************)
ACCOUNT               == "Wallet"     \* account.address
BASE_CURRENCY_ADDRESS == "WETH"
TOKEN_ADDRESS         == "TOKEN"      \* the token_address argument
ZERO_ADDRESS          == "0x0"

SLIPPAGE_TOLERANCE_PERCENT == 1
MAX_GAS_LIMIT              == 500000
DEADLINE_WINDOW            == 300
RECEIPT_TIMEOUT            == 120

\* What a call wrapped in resilient_rpc_call hands back to its caller:
\*   kind "value"   - the operation returned val
\*   kind "decoded" - the operation reverted with data and resilient_rpc_call
\*                    returned the decoded first word (an int) instead
\*   kind "raise"   - resilient_rpc_call raised (msg = str(exception))
Value(v)   == [kind |-> "value",   val |-> v, msg |-> ""]
Decoded(v) == [kind |-> "decoded", val |-> v, msg |-> ""]
Raised(m)  == [kind |-> "raise",   val |-> 0, msg |-> m]

\* trading.py line 56: the text of the exception raised after the last retry
RpcFailedMsg == "RPC call failed after retries."
RpcFailed    == Raised(RpcFailedMsg)

\* str(e) of the exception of line 56, character by character, under the
\* default RPC_MAX_RETRIES
Str_rpc_failed ==
    << "R", "P", "C", " ", "c", "a", "l", "l", " ", "f", "a", "i", "l", "e", "d", " ",
       "a", "f", "t", "e", "r", " ", "5", " ", "r", "e", "t", "r", "i", "e", "s", "." >>
Str_revert == << "r", "e", "v", "e", "r", "t" >>
Str_execution_reverted ==
    << "e", "x", "e", "c", "u", "t", "i", "o", "n", " ", "r", "e", "v", "e", "r", "t", "e", "d" >>

\* str(e) for the exceptions the wrapped quote calls hand to the handlers of
\* lines 186 and 342
ExceptionText(msg) == CASE msg = RpcFailedMsg -> Str_rpc_failed

\* line 187: "revert" in str(e).lower()
MsgMentionsRevert(text) == StrContains(StrLower(text), Str_revert)

\* line 343: "execution reverted" in str(err)
MsgMentionsExecutionReverted(text) == StrContains(text, Str_execution_reverted)

\* One entry of the attempt's call log.
\*   kind "read"  : eth_call / eth_get* (a read-only on-chain call); where the
\*                  code makes the read through resilient_rpc_call the entry
\*                  stands for that one wrapped read, which is invoked on the
\*                  chain up to RPC_MAX_RETRIES times
\*   kind "build" : build_transaction      kind "sign" : sign_transaction
\*   kind "send"  : send_raw_transaction   kind "wait" : wait_for_transaction_receipt
\*   kind "parse" : _parse_receipt_for_amount_out
Call(op, kind, leg, arg) == [op |-> op, kind |-> kind, leg |-> leg, arg |-> arg]

\* A call of the log together with the answer the chain gave to it
Answered(c, ans) == [op |-> c.op, kind |-> c.kind, leg |-> c.leg, arg |-> c.arg, ans |-> ans]

\* A read made through resilient_rpc_call, together with the number of times
\* the wrapper invoked the operation on the chain (lines 28-30)
Invoked(c, n) == [op |-> c.op, kind |-> c.kind, leg |-> c.leg, arg |-> c.arg,
                  invocations |-> n]

\* config.py line 30: RPC_MAX_RETRIES = int(os.getenv("RPC_MAX_RETRIES", 5));
\* execute_trade is followed under the default
RPC_MAX_RETRIES_DEFAULT == 5
\* How often resilient_rpc_call invokes a read that it returns a value for:
\* between one and RPC_MAX_RETRIES times; the two ends are drawn
InvocationCounts == {1, RPC_MAX_RETRIES_DEFAULT}


-----------------------------------------------------------------------------
(***************************************************************************)
(* The slippage floor in IEEE-754 double arithmetic                        *)
(*                                                                         *)
(* int(x * (1 - SLIPPAGE_TOLERANCE_PERCENT / 100.0)) multiplies the int x  *)
(* by the double c = 1 - s/100.0, rounds the product to 53 significant     *)
(* bits (to nearest, ties to even) and truncates.  Binary numbers are      *)
(* sequences of bits, least significant first.                             *)
(***************************************************************************)
\* The double 1 - s/100.0 as mant * 2^(-exp), mant a 53-bit integer:
\*   s = 0 : 1.0                   (0x1.0000000000000p+0)
\*   s = 1 : 0.99                  (0x1.fae147ae147aep-1)
\*   s = 7 : 0.9299999999999999    (0x1.dc28f5c28f5c2p-1)
SlippageFactor(s) ==
    IF s = 0 THEN
      [exp |-> 52,
       mant |-> <<0, 0, 0, 0, 0, 0, 0, 0, 0, 0, 0, 0, 0, 0, 0, 0, 0, 0, 0, 0, 0, 0, 0, 0, 0, 0, 0,
          0, 0, 0, 0, 0, 0, 0, 0, 0, 0, 0, 0, 0, 0, 0, 0, 0, 0, 0, 0, 0, 0, 0, 0, 0, 1>>]
    ELSE IF s = 1 THEN
      [exp |-> 53,
       mant |-> <<0, 1, 1, 1, 0, 1, 0, 1, 1, 1, 1, 0, 0, 0, 1, 0, 1, 0, 0, 0, 0, 1, 1, 1, 0, 1, 0,
          1, 1, 1, 1, 0, 0, 0, 1, 0, 1, 0, 0, 0, 0, 1, 1, 1, 0, 1, 0, 1, 1, 1, 1, 1, 1>>]
    ELSE
      [exp |-> 53,
       mant |-> <<0, 1, 0, 0, 0, 0, 1, 1, 1, 0, 1, 0, 1, 1, 1, 1, 0, 0, 0, 1, 0, 1, 0, 0, 0, 0, 1,
          1, 1, 0, 1, 0, 1, 1, 1, 1, 0, 0, 0, 1, 0, 1, 0, 0, 0, 0, 1, 1, 1, 0, 1, 1, 1>>]

\* bits * e + carry, for a small non-negative integer e
RECURSIVE MulBits(_, _, _)
MulBits(bits, e, carry) ==
    IF bits = <<>>
      THEN (IF carry = 0 THEN <<>> ELSE <<carry % 2>> \o MulBits(<<>>, e, carry \div 2))
      ELSE LET t == Head(bits) * e + carry
           IN  <<t % 2>> \o MulBits(Tail(bits), e, t \div 2)

\* bits + 1
RECURSIVE IncBits(_)
IncBits(bits) ==
    IF bits = <<>> THEN <<1>>
    ELSE IF Head(bits) = 0 THEN <<1>> \o Tail(bits)
    ELSE <<0>> \o IncBits(Tail(bits))

RECURSIVE BitsToInt(_)
BitsToInt(bits) == IF bits = <<>> THEN 0 ELSE Head(bits) + 2 * BitsToInt(Tail(bits))

\* Rounding of an exact product to a double: the 53 leading bits are kept,
\* rounded to nearest, ties to even; `drop` low bits are lost.
RoundToDouble(bits) ==
    IF Len(bits) <= 53 THEN [kept |-> bits, drop |-> 0]
    ELSE LET d      == Len(bits) - 53
             kept   == SubSeq(bits, d + 1, Len(bits))
             guard  == bits[d]
             sticky == \E i \in 1..(d - 1) : bits[i] = 1
             up     == guard = 1 /\ (sticky \/ kept[1] = 1)
         IN  [kept |-> IF up THEN IncBits(kept) ELSE kept, drop |-> d]

\* int(x * c) for an int x >= 0 and the double c = 1 - s/100.0
SlippageMinFor(x, s) ==
    LET c     == SlippageFactor(s)
        r     == RoundToDouble(MulBits(c.mant, x, 0))
        shift == c.exp - r.drop       \* the value is r.kept * 2^(-shift)
    IN  IF x = 0 \/ shift >= Len(r.kept) THEN 0
        ELSE BitsToInt(SubSeq(r.kept, shift + 1, Len(r.kept)))

\* int(x * (1 - SLIPPAGE_TOLERANCE_PERCENT / 100.0))
SlippageMin(x) == SlippageMinFor(x, SLIPPAGE_TOLERANCE_PERCENT)

\* What a quote strategy hands back: a swap function and the minimum output,
\* or an exception; `cs` are the calls it made on the way.
Prepared(cs, swap) == [ok |-> TRUE,  calls |-> cs, swap |-> swap, msg |-> ""]
PrepFailed(cs, m)  == [ok |-> FALSE, calls |-> cs, swap |-> [fn |-> "None"], msg |-> m]

-----------------------------------------------------------------------------
(***************************************************************************)
(* Quote strategies.  Each takes the chain's answers for the calls it      *)
(* makes (a scenario record `ch`) and returns Prepared / PrepFailed.       *)
(***************************************************************************)

\* variant: the probe, with its placeholder minimum, is returned as the swap
prepare_1inch_swap_ReturnsProbe(router_info, amount_in_wei, token_in, token_out, leg, ch) ==
    LET probe == Answered(Call("swap.call", "read", leg,
                               [router |-> router_info.address, src |-> token_in,
                                dst |-> token_out, amount |-> amount_in_wei,
                                minReturn |-> 1]),
                          ch.sim)
        cs    == <<probe>>
    IN  IF ch.sim.kind # "value"
          \* raise, or an int that cannot be subscripted: both end in ValueError
          THEN PrepFailed(cs, "Could not get on-chain quote from 1inch router.")
        ELSE IF ch.sim.val[1] = 0
          THEN PrepFailed(cs, "1inch on-chain quote returned 0 amount out.")
        ELSE Prepared(cs, [fn |-> "swap", router |-> router_info.address,
                           token_in |-> token_in, token_out |-> token_out,
                           amount_in |-> amount_in_wei,
                           min_out |-> 1,
                           quoted |-> ch.sim.val[1],
                           sel |-> <<"executor">>,
                           deadline |-> 0])

\* trading._prepare_1inch_swap (lines 66-126)
\*   ch.sim : answer of the simulated swap (probe with minReturn = 1)
prepare_1inch_swap(router_info, amount_in_wei, token_in, token_out, leg, ch) ==
    LET probe == Answered(Call("swap.call", "read", leg,
                               [router |-> router_info.address, src |-> token_in,
                                dst |-> token_out, amount |-> amount_in_wei,
                                minReturn |-> 1]),
                          ch.sim)
        cs    == <<probe>>
    IN  IF ch.sim.kind # "value"
          \* raise, or an int that cannot be subscripted: both end in ValueError
          THEN PrepFailed(cs, "Could not get on-chain quote from 1inch router.")
        ELSE IF ch.sim.val[1] = 0
          THEN PrepFailed(cs, "1inch on-chain quote returned 0 amount out.")
        ELSE Prepared(cs, [fn |-> "swap", router |-> router_info.address,
                           token_in |-> token_in, token_out |-> token_out,
                           amount_in |-> amount_in_wei,
                           min_out |-> SlippageMin(ch.sim.val[1]),
                           quoted |-> ch.sim.val[1],
                           sel |-> <<"executor">>,
                           deadline |-> 0])

\* variant: the swap is built on the reversed path, not on the quoted one
prepare_uniswap_v2_swap_ReversedSwapPath(router_info, amount_in_wei, path, leg, ch) ==
    LET cs == <<Call("getAmountsOut", "read", leg,
                     [router |-> router_info.address, amount |-> amount_in_wei,
                      path |-> path])>>
    IN  IF ch.amounts.kind = "raise" THEN PrepFailed(cs, ch.amounts.msg)
        ELSE IF ch.amounts.kind = "decoded"
          THEN PrepFailed(cs, "TypeError: 'int' object is not subscriptable")
        ELSE Prepared(cs, [fn |-> "swapExactTokensForTokens",
                           router |-> router_info.address,
                           token_in |-> path[1], token_out |-> path[Len(path)],
                           amount_in |-> amount_in_wei,
                           min_out |-> SlippageMin(ch.amounts.val[Len(ch.amounts.val)]),
                           quoted |-> ch.amounts.val[Len(ch.amounts.val)],
                           sel |-> <<path[Len(path)], path[1]>>,
                           deadline |-> DEADLINE_WINDOW])

\* trading._prepare_uniswap_v2_swap (lines 225-238)
\*   ch.amounts : answer of router.getAmountsOut(amount_in_wei, path)
prepare_uniswap_v2_swap(router_info, amount_in_wei, path, leg, ch) ==
    LET cs == <<Call("getAmountsOut", "read", leg,
                     [router |-> router_info.address, amount |-> amount_in_wei,
                      path |-> path])>>
    IN  IF ch.amounts.kind = "raise" THEN PrepFailed(cs, ch.amounts.msg)
        ELSE IF ch.amounts.kind = "decoded"
          THEN PrepFailed(cs, "TypeError: 'int' object is not subscriptable")
        ELSE Prepared(cs, [fn |-> "swapExactTokensForTokens",
                           router |-> router_info.address,
                           token_in |-> path[1], token_out |-> path[Len(path)],
                           amount_in |-> amount_in_wei,
                           min_out |-> SlippageMin(ch.amounts.val[Len(ch.amounts.val)]),
                           quoted |-> ch.amounts.val[Len(ch.amounts.val)],
                           sel |-> path,
                           deadline |-> DEADLINE_WINDOW])

\* variant: a descriptor without factory is accepted
FactoryMissing_Never(router_info) == FALSE

\* lines 143-145: factory = router_info.get("factory"); if not factory: raise
FactoryMissing(router_info) == router_info.factory = "None"

\* line 166: r0 == 0 or r1 == 0
ZeroReserves(r0, r1) == r0 = 0 \/ r1 = 0

\* trading._prepare_solidly_swap (lines 128-223)
\*   ch.pair_code : w3.eth.get_code(pair_address) - "code", "empty" or "raise"
\*   ch.reserves  : answer of pair.getReserves()
\*   ch.volatile  : answer of getAmountsOut with the volatile route
\*   ch.stable    : answer of getAmountsOut with the stable route
prepare_solidly_swap(router_info, amount_in_wei, token_in, token_out, pair_address, leg, ch) ==
    LET factory  == router_info.factory
        c_code   == Call("get_code", "read", leg, [address |-> pair_address])
        c_res    == Answered(Call("getReserves", "read", leg, [pair |-> pair_address]),
                             ch.reserves)
        c_quote(stable) ==
            Answered(Call("getAmountsOut", "read", leg,
                          [router |-> router_info.address, amount |-> amount_in_wei,
                           route |-> <<token_in, token_out, stable, factory>>]),
                     IF stable THEN ch.stable ELSE ch.volatile)
        Swap(stable, amounts, cs) ==
            IF amounts.kind = "decoded"
              THEN PrepFailed(cs, "TypeError: 'int' object is not subscriptable")
              ELSE Prepared(cs, [fn |-> "swapExactTokensForTokens",
                                 router |-> router_info.address,
                                 token_in |-> token_in, token_out |-> token_out,
                                 amount_in |-> amount_in_wei,
                                 min_out |-> SlippageMin(amounts.val[Len(amounts.val)]),
                                 quoted |-> amounts.val[Len(amounts.val)],
                                 sel |-> <<token_in, token_out, stable, factory>>,
                                 deadline |-> DEADLINE_WINDOW])
    IN  IF FactoryMissing(router_info) THEN PrepFailed(<<>>, "no factory address in config")
        ELSE IF pair_address = "None"
          THEN PrepFailed(<<>>, "No valid pair_address provided for solidly swap.")
        ELSE IF ch.pair_code = "raise" THEN PrepFailed(<<c_code>>, "get_code failed")
        ELSE IF ch.pair_code = "empty"
          THEN PrepFailed(<<c_code>>, "No valid pair_address provided for solidly swap.")
        ELSE IF ch.reserves.kind = "raise" THEN PrepFailed(<<c_code, c_res>>, ch.reserves.msg)
        ELSE IF ZeroReserves(ch.reserves.val[1], ch.reserves.val[2])
          THEN PrepFailed(<<c_code, c_res>>, "pool has zero reserves")
        ELSE IF ch.volatile.kind # "raise"
          THEN Swap(FALSE, ch.volatile, <<c_code, c_res, c_quote(FALSE)>>)
        ELSE IF ~MsgMentionsRevert(ExceptionText(ch.volatile.msg))
          THEN PrepFailed(<<c_code, c_res, c_quote(FALSE)>>, ch.volatile.msg)
        ELSE IF ch.stable.kind # "raise"
          THEN Swap(TRUE, ch.stable, <<c_code, c_res, c_quote(FALSE), c_quote(TRUE)>>)
        ELSE IF ~MsgMentionsRevert(ExceptionText(ch.stable.msg))
          THEN PrepFailed(<<c_code, c_res, c_quote(FALSE), c_quote(TRUE)>>, ch.stable.msg)
        ELSE PrepFailed(<<c_code, c_res, c_quote(FALSE), c_quote(TRUE)>>,
                        "Could not get quote as either stable or volatile.")

\* variant: the tiers in ascending order
FEE_TIERS_Ascending == <<100, 500, 2500, 3000, 10000>>

\* trading._prepare_uniswap_v3_swap, line 278
FEE_TIERS == <<500, 3000, 10000, 2500, 100>>

\* trading._prepare_uniswap_v3_swap, lines 280-287: the factory search from
\* tier number i on.  ch.pools[i] is what the chain holds for FEE_TIERS[i]:
\*   "raise"  - factory.getPool fails       "0x0"  - no pool (zero address)
\*   "nocode" - an address without code     "live" - a deployed pool
\*   "coderaise" - an address for which w3.eth.get_code fails (line 284 calls
\*                 it directly, so the node's exception leaves the strategy)
\* The pool address the factory reports for FEE_TIERS[i] when one exists.
POOL_AT == <<"Pool500", "Pool3000", "Pool10000", "Pool2500", "Pool100">>

RECURSIVE V3FactorySearch(_, _, _, _, _, _)
V3FactorySearch(i, factory, token_in, token_out, leg, ch) ==
    IF i > Len(FEE_TIERS) THEN [found |-> "no", fee |-> 0, addr |-> "None", calls |-> <<>>]
    ELSE LET fee   == FEE_TIERS[i]
             addr  == POOL_AT[i]
             c_get == Answered(Call("getPool", "read", leg,
                                    [factory |-> factory, token_in |-> token_in,
                                     token_out |-> token_out, fee |-> fee]),
                               ch.pools[i])
             c_code == Call("get_code", "read", leg, [address |-> addr])
         IN  IF ch.pools[i] = "raise"
               THEN [found |-> "raise", fee |-> 0, addr |-> "None", calls |-> <<c_get>>]
             ELSE IF ch.pools[i] = "coderaise"
               THEN [found |-> "get_code failed", fee |-> 0, addr |-> "None",
                     calls |-> <<c_get, c_code>>]
             ELSE IF ch.pools[i] = "live"
               THEN [found |-> "yes", fee |-> fee, addr |-> addr, calls |-> <<c_get, c_code>>]
             ELSE LET rest == V3FactorySearch(i + 1, factory, token_in, token_out, leg, ch)
                  IN  [rest EXCEPT !.calls =
                          (IF ch.pools[i] = "nocode" THEN <<c_get, c_code>> ELSE <<c_get>>) \o @]

\* trading._prepare_uniswap_v3_swap, lines 263-290: pool discovery
\*   ch.pair_code : w3.eth.get_code(pair_address) - "code", "empty" or "raise"
\*   ch.fee       : answer of pool.fee() on the provided pair address
V3FindPool(router_info, token_in, token_out, pair_address, leg, ch) ==
    LET c_code == Call("get_code", "read", leg, [address |-> pair_address])
        c_fee  == Call("fee", "read", leg, [pool |-> pair_address])
        Search(cs) ==
            LET r == V3FactorySearch(1, router_info.factory, token_in, token_out, leg, ch)
            IN  [r EXCEPT !.calls = cs \o @]
    IN  IF pair_address = "None" THEN Search(<<>>)
        \* line 265 calls w3.eth.get_code directly: the node's exception leaves
        ELSE IF ch.pair_code = "raise"
          THEN [found |-> "get_code failed", fee |-> 0, addr |-> "None", calls |-> <<c_code>>]
        ELSE IF ch.pair_code = "empty" THEN Search(<<c_code>>)
        ELSE IF ch.fee.kind = "raise" THEN Search(<<c_code, c_fee>>)
        ELSE [found |-> "yes", fee |-> ch.fee.val, addr |-> pair_address,
              calls |-> <<c_code, c_fee>>]

\* trading._prepare_uniswap_v3_swap, lines 306-357: the quote sources
\*   ch.q1 : answer of quoter.quoteExactInputSingle(params)
\*   ch.q2 : answer of quoter.quoteExactInput(path, amount)
\* pool.functions has no getQuote in either pool ABI (abi.py), so the helper
\* of lines 348-353 is never called.
V3Quote(router_info, amount_in_wei, token_in, token_out, chosen_fee, leg, ch) ==
    LET c_q1 == Answered(Call("quoteExactInputSingle", "read", leg,
                              [quoter |-> router_info.quoter, token_in |-> token_in,
                               token_out |-> token_out, fee |-> chosen_fee,
                               amount |-> amount_in_wei]),
                         ch.q1)
        c_q2 == Answered(Call("quoteExactInput", "read", leg,
                              [quoter |-> router_info.quoter,
                               path |-> <<token_in, chosen_fee, token_out>>,
                               amount |-> amount_in_wei]),
                         ch.q2)
    IN  IF ch.q1.kind = "value"
          THEN [ok |-> TRUE, amount |-> ch.q1.val[1], source |-> "quoteExactInputSingle",
                calls |-> <<c_q1>>, msg |-> ""]
        \* q1 raised, or returned a decoded int whose [0] raises TypeError;
        \* line 334: chosen_fee.to_bytes(3, 'big') raises OverflowError for a
        \* fee that does not fit three bytes, and line 346 re-raises it
        ELSE IF chosen_fee < 0 \/ chosen_fee >= 16777216
          THEN [ok |-> FALSE, amount |-> 0, source |-> "None", calls |-> <<c_q1>>,
                msg |-> "OverflowError"]
        ELSE IF ch.q2.kind # "raise"
          THEN [ok |-> TRUE, amount |-> ch.q2.val, source |-> "quoteExactInput",
                calls |-> <<c_q1, c_q2>>, msg |-> ""]
        ELSE IF ~MsgMentionsExecutionReverted(ExceptionText(ch.q2.msg))
          THEN [ok |-> FALSE, amount |-> 0, source |-> "None",
                calls |-> <<c_q1, c_q2>>, msg |-> ch.q2.msg]
        ELSE [ok |-> FALSE, amount |-> 0, source |-> "None", calls |-> <<c_q1, c_q2>>,
              msg |-> "All V3 quote methods failed (Quoter, router helper). Cannot proceed."]

\* line 297: sqrt_price_x96 == 0, the first element of slot0()
PoolNeverInitialised(slot0) == slot0[1] = 0

\* variant: a pool without active liquidity is accepted
PoolHasNoLiquidity_Accepted(liquidity) == FALSE

\* line 301: liquidity == 0
PoolHasNoLiquidity(liquidity) == liquidity = 0

\* variant: the swap is built on the default tier
SwapFeeTier_Default(chosen_fee) == 3000

\* line 366: "fee": chosen_fee - the tier the swap executes against
SwapFeeTier(chosen_fee) == chosen_fee

\* trading._prepare_uniswap_v3_swap (lines 240-384)
\*   ch.slot0     : answer of pool.slot0()      ch.liquidity : answer of pool.liquidity()
prepare_uniswap_v3_swap(router_info, amount_in_wei, token_in, token_out, pair_address, leg, ch) ==
    LET p  == V3FindPool(router_info, token_in, token_out, pair_address, leg, ch)
        c_slot0 == Answered(Call("slot0", "read", leg, [pool |-> p.addr]), ch.slot0)
        c_liq   == Answered(Call("liquidity", "read", leg, [pool |-> p.addr]), ch.liquidity)
        q  == V3Quote(router_info, amount_in_wei, token_in, token_out, p.fee, leg, ch)
    IN  IF router_info.factory = "None"
          THEN PrepFailed(<<>>, "V3 DEX requires a 'factory' address")
        ELSE IF p.found = "get_code failed" THEN PrepFailed(p.calls, "get_code failed")
        ELSE IF p.found = "raise" THEN PrepFailed(p.calls, RpcFailedMsg)
        ELSE IF p.found = "no" THEN PrepFailed(p.calls, "No live V3 pool for pair")
        ELSE IF ch.slot0.kind = "raise" THEN PrepFailed(p.calls \o <<c_slot0>>, ch.slot0.msg)
        ELSE IF PoolNeverInitialised(ch.slot0.val)
          THEN PrepFailed(p.calls \o <<c_slot0>>, "Pool exists but never initialised")
        ELSE IF ch.liquidity.kind = "raise"
          THEN PrepFailed(p.calls \o <<c_slot0, c_liq>>, ch.liquidity.msg)
        ELSE IF PoolHasNoLiquidity(ch.liquidity.val)
          THEN PrepFailed(p.calls \o <<c_slot0, c_liq>>,
                          "Pool initialised but has zero active liquidity")
        ELSE IF router_info.quoter = "None"
          THEN PrepFailed(p.calls \o <<c_slot0, c_liq>>, "Router config missing 'quoter' address")
        ELSE IF ~q.ok THEN PrepFailed(p.calls \o <<c_slot0, c_liq>> \o q.calls, q.msg)
        ELSE Prepared(p.calls \o <<c_slot0, c_liq>> \o q.calls,
                      [fn |-> "exactInputSingle", router |-> router_info.address,
                       token_in |-> token_in, token_out |-> token_out,
                       amount_in |-> amount_in_wei,
                       min_out |-> SlippageMin(q.amount),
                       quoted |-> q.amount,
                       sel |-> <<token_in, token_out, SwapFeeTier(p.fee)>>,
                       deadline |-> DEADLINE_WINDOW])

-----------------------------------------------------------------------------
(***************************************************************************)
(* Settlement verifier: trading._parse_receipt_for_amount_out              *)
(*                                                                         *)
(* A log is [address, topics, data]: topics[1] is the event signature      *)
(* (Python topics[0]), topics[2] / topics[3] the indexed addresses, data   *)
(* the sequence of 32-byte words (as integers).                            *)
(***************************************************************************)
Str_pancake == <<"p", "a", "n", "c", "a", "k", "e">>
Str_PancakeSwap == <<"P", "a", "n", "c", "a", "k", "e", "S", "w", "a", "p">>

Abs(x) == IF x < 0 THEN -x ELSE x
Min2(a, b) == IF a <= b THEN a ELSE b

\* trading._get_v3_pool_abi (lines 58-64)
get_v3_pool_abi(dex_name) ==
    IF StrContains(StrLower(dex_name), Str_pancake) THEN "PANCAKE_V3_POOL_ABI"
    ELSE "UNISWAP_V3_POOL_ABI"

\* lines 395-402: the pool is the recipient of the first base-currency
\* Transfer sent by the wallet
RECURSIVE InferPoolAddress(_)
InferPoolAddress(logs) ==
    IF logs = <<>> THEN "None"
    ELSE LET log == Head(logs)
         IN  IF /\ log.address = BASE_CURRENCY_ADDRESS
                /\ Len(log.topics) = 3
                /\ log.topics[1] = "Transfer"
                /\ log.topics[2] = ACCOUNT
               THEN log.topics[3]
               ELSE InferPoolAddress(Tail(logs))

\* line 407: Swap().process_receipt(receipt, errors=DISCARD) with the Uniswap
\* pool ABI keeps every log of the receipt that decodes as that Swap event
\* (two indexed addresses, five data words), whatever contract emitted it.
IsSwapLog(log) ==
    /\ Len(log.topics) = 3
    /\ log.topics[1] = "Swap"
    /\ Len(log.data) = 5

\* lines 408-415: the first Swap event to the wallet with a non-zero amount
RECURSIVE SwapEventAmount(_)
SwapEventAmount(logs) ==
    IF logs = <<>> THEN 0
    ELSE LET log == Head(logs)
             amount_received == Abs(Min2(log.data[1], log.data[2]))
         IN  IF IsSwapLog(log) /\ log.topics[3] = ACCOUNT /\ amount_received > 0
               THEN amount_received
               ELSE SwapEventAmount(Tail(logs))

\* lines 392-417: the V3 path; the Pancake pool ABI declares no Swap event, so
\* events.Swap() raises there and the except clause leaves the amount at 0
V3SwapAmount(logs, dex_name) ==
    IF InferPoolAddress(logs) = "None" THEN 0
    ELSE IF get_v3_pool_abi(dex_name) = "PANCAKE_V3_POOL_ABI" THEN 0
    ELSE SwapEventAmount(logs)

\* variant: the scan does not stop at the first match
TransferAmount_Last(logs, target_token_address) ==
    LET hits == {i \in 1..Len(logs) :
                    /\ Len(logs[i].topics) = 3
                    /\ logs[i].topics[1] = "Transfer"
                    /\ logs[i].address = target_token_address
                    /\ logs[i].topics[3] = ACCOUNT}
    IN  IF hits = {} THEN 0 ELSE logs[SetMax(hits)].data[1]

\* lines 423-432: the value of the first Transfer of the target token to the
\* wallet; a log whose data does not decode raises and ends the scan with 0
RECURSIVE TransferAmount(_, _)
TransferAmount(logs, target_token_address) ==
    IF logs = <<>> THEN 0
    ELSE LET log == Head(logs)
         IN  IF /\ Len(log.topics) = 3
                /\ log.topics[1] = "Transfer"
                /\ log.address = target_token_address
                /\ log.topics[3] = ACCOUNT
               THEN (IF Len(log.data) >= 1 THEN log.data[1] ELSE 0)
               ELSE TransferAmount(Tail(logs), target_token_address)

\* trading._parse_receipt_for_amount_out (lines 386-434)
parse_receipt_for_amount_out(receipt, router_info, dex_name, target_token_address) ==
    LET v3 == IF router_info.version = 3 THEN V3SwapAmount(receipt.logs, dex_name) ELSE 0
    IN  IF v3 # 0 THEN v3
        ELSE TransferAmount(receipt.logs, target_token_address)

-----------------------------------------------------------------------------
(***************************************************************************)
(* The chain's possible answers (the environment of one attempt)           *)
(***************************************************************************)
MaxLogs == 2        \* longest receipt (number of logs) in the orchestrator runs

\* Quote answers: what a quoting call may report as the output amount.
QuoteOuts == {0, 100}

InchScenarios ==
    {[sim |-> a] : a \in {RpcFailed, Decoded(100)} \cup {Value(<<q, 1>>) : q \in QuoteOuts}}

V2Scenarios ==
    {[amounts |-> a] : a \in {RpcFailed, Decoded(100)} \cup {Value(<<1, q>>) : q \in QuoteOuts}}

SolidlyBase ==
    [pair_code |-> "code", reserves |-> Value(<<5, 5, 0>>),
     volatile |-> Value(<<1, 100>>), stable |-> Value(<<1, 90>>)]

SolidlyScenarios ==
    {SolidlyBase,
     [SolidlyBase EXCEPT !.pair_code = "empty"],
     [SolidlyBase EXCEPT !.pair_code = "raise"],
     [SolidlyBase EXCEPT !.reserves = RpcFailed],
     [SolidlyBase EXCEPT !.reserves = Value(<<0, 5, 0>>)],
     [SolidlyBase EXCEPT !.volatile = RpcFailed],
     [SolidlyBase EXCEPT !.volatile = Decoded(100)]}

V3Base ==
    [pair_code |-> "code", fee |-> Value(3000),
     pools |-> <<"0x0", "0x0", "0x0", "0x0", "0x0">>,
     slot0 |-> Value(<<79, 0>>), liquidity |-> Value(9),
     q1 |-> Value(<<100, 79, 1, 5>>), q2 |-> Value(90)]

V3Scenarios ==
    {V3Base,
     [V3Base EXCEPT !.pair_code = "raise"],
     [V3Base EXCEPT !.pair_code = "empty"],
     [V3Base EXCEPT !.pair_code = "empty", !.pools = <<"0x0", "live", "0x0", "0x0", "0x0">>],
     [V3Base EXCEPT !.fee = RpcFailed, !.pools = <<"0x0", "nocode", "0x0", "live", "live">>],
     [V3Base EXCEPT !.fee = RpcFailed, !.pools = <<"0x0", "raise", "0x0", "live", "live">>],
     [V3Base EXCEPT !.pair_code = "empty",
                    !.pools = <<"nocode", "0x0", "coderaise", "0x0", "0x0">>],
     [V3Base EXCEPT !.slot0 = RpcFailed],
     [V3Base EXCEPT !.slot0 = Value(<<0, 0>>)],
     [V3Base EXCEPT !.liquidity = RpcFailed],
     [V3Base EXCEPT !.liquidity = Value(0)],
     [V3Base EXCEPT !.q1 = RpcFailed],
     [V3Base EXCEPT !.q1 = Decoded(100), !.q2 = Decoded(90)],
     [V3Base EXCEPT !.q1 = RpcFailed, !.q2 = RpcFailed]}

\* The logs a buy receipt may carry.
LogWethToPool   == [address |-> BASE_CURRENCY_ADDRESS,
                    topics |-> <<"Transfer", ACCOUNT, "Pool3000">>, data |-> <<20>>]
LogTokenToMe    == [address |-> TOKEN_ADDRESS,
                    topics |-> <<"Transfer", "Pool3000", ACCOUNT>>, data |-> <<7>>]
LogTokenToOther == [address |-> TOKEN_ADDRESS,
                    topics |-> <<"Transfer", "Pool3000", "Other">>, data |-> <<9>>]
LogSwapToMe     == [address |-> "Pool3000",
                    topics |-> <<"Swap", "RouterUniV3", ACCOUNT>>, data |-> <<20, -8, 79, 9, 1>>]
LogTokenZero    == [address |-> TOKEN_ADDRESS,
                    topics |-> <<"Transfer", "Pool3000", ACCOUNT>>, data |-> <<0>>]

TradeLogs == {LogWethToPool, LogTokenToMe, LogTokenToOther, LogSwapToMe, LogTokenZero}

\* A log with the Swap event's signature and the wallet as recipient, emitted
\* by a contract that is not the pool the wallet paid
LogSwapElsewhere == [address |-> "Pool500",
                     topics |-> <<"Swap", "RouterUniV3", ACCOUNT>>,
                     data |-> <<20, -9, 79, 9, 1>>]

\* All sequences over S of length at most n
SeqsUpTo(S, n) == UNION {[1..k -> S] : k \in 0..n}

\* What wait_for_transaction_receipt may hand back: a receipt (status 0 or 1)
\* or, with status -1, the TimeExhausted exception after RECEIPT_TIMEOUT.
NoReceipt == [status |-> -1, logs |-> <<>>]
\* A reverted transaction emits no logs.
Receipts  == {[status |-> 0, logs |-> <<>>]}
             \cup {[status |-> 1, logs |-> ls] : ls \in SeqsUpTo(TradeLogs, MaxLogs)}

-----------------------------------------------------------------------------
(***************************************************************************)
(* trading.execute_trade(buy_pool, sell_pool, spread, token_address)       *)
(***************************************************************************)
\* The pools the caller may pass and the configurations the process may run with.
BuyPools ==
    {[dex |-> d, liq_usd |-> l, base_currency_price_usd |-> p, pairAddress |-> "PairBuy"] :
        d \in VenueIds, l \in {50, 60}, p \in {0, 3}}
SellPools ==
    {[dex |-> d, liq_usd |-> l, pairAddress |-> "PairSell"] : d \in VenueIds, l \in {50, 60}}
Configs ==
    {[account |-> TRUE,  base |-> TRUE,  TRADE_AMOUNT_BASE_TOKEN |-> 2],
     [account |-> FALSE, base |-> TRUE,  TRADE_AMOUNT_BASE_TOKEN |-> 2],
     [account |-> TRUE,  base |-> FALSE, TRADE_AMOUNT_BASE_TOKEN |-> 2],
     [account |-> TRUE,  base |-> TRUE,  TRADE_AMOUNT_BASE_TOKEN |-> 0]}

NoArgs == [buy_pool |-> [dex |-> <<>>, liq_usd |-> 0, base_currency_price_usd |-> 0,
                         pairAddress |-> "None"],
           sell_pool |-> [dex |-> <<>>, liq_usd |-> 0, pairAddress |-> "None"],
           cfg |-> [account |-> FALSE, base |-> FALSE, TRADE_AMOUNT_BASE_TOKEN |-> 0]]

NoSwap == [fn |-> "None"]
NoTxn  == [nonce |-> -1]

\* The locals of execute_trade before any of them is assigned.
NoLocals ==
    [buy_router_info |-> NoneInfo, sell_router_info |-> NoneInfo,
     base_decimals |-> 0, amount_in_wei |-> 0, wallet_balance_wei |-> 0,
     target_decimals |-> 0, chain_id |-> 0,
     max_priority_fee |-> 0, base_fee |-> 0, max_fee_per_gas |-> 0, nonce |-> -1,
     swap_function |-> NoSwap, buy_txn |-> NoTxn, buy_receipt |-> NoReceipt,
     amount_received_wei |-> 0,
     sell_nonce |-> -1, sell_swap_function |-> NoSwap, sell_txn |-> NoTxn,
     sell_receipt |-> NoReceipt]

\* Chain answers of the plain reads
DecimalsAnswers    == {0, 1}
BalanceAnswers     == {1, 20}
PriorityFeeAnswers == {1}
BaseFeeAnswers     == {10}
NonceAnswers       == {7}
ChainIdAnswers     == {8453}

\* How execute_trade ends: it prints `status` and returns to its caller.
Outcome(status, error) == [status |-> status, error |-> error]

\* The step returns (a `return` statement, or the except clause of line 582
\* after an exception): execute_trade is over, the engine is Idle again.
Return(status, error, cs, newloc) ==
    /\ pc' = "Idle"
    /\ outcome' = Outcome(status, error)
    /\ calls' = calls \o cs
    /\ loc' = newloc
    /\ UNCHANGED <<args, rpcVars, mainVars, fnVars>>

\* The step falls through to the next block of execute_trade.
Goto(next, cs, newloc) ==
    /\ pc' = next
    /\ calls' = calls \o cs
    /\ loc' = newloc
    /\ UNCHANGED <<args, outcome, rpcVars, mainVars, fnVars>>

\* line 442: all([account, BASE_CURRENCY_ADDRESS, TRADE_AMOUNT_BASE_TOKEN > 0])
Configured(cfg) == cfg.account /\ cfg.base /\ cfg.TRADE_AMOUNT_BASE_TOKEN > 0

\* variant: only the buy venue's descriptor is tested
RouterMissing_BuyOnly(buy_router_info, sell_router_info) ==
    buy_router_info = NoneInfo

\* line 451: not buy_router_info or not sell_router_info
RouterMissing(buy_router_info, sell_router_info) ==
    buy_router_info = NoneInfo \/ sell_router_info = NoneInfo

\* lines 437-453: entry, configuration check, router resolution
T_Start ==
    /\ pc = "Idle"
    /\ outcome = Outcome("none", "")
    /\ UNCHANGED <<rpcVars, mainVars, fnVars>>
    /\ \E bp \in BuyPools, sp \in SellPools, cfg \in Configs :
         LET buy_router_info  == find_router_info(bp.dex, DEX_ROUTERS)
             sell_router_info == find_router_info(sp.dex, DEX_ROUTERS)
             l0 == [NoLocals EXCEPT !.buy_router_info = buy_router_info,
                                    !.sell_router_info = sell_router_info]
         IN  /\ args' = [buy_pool |-> bp, sell_pool |-> sp, cfg |-> cfg]
             /\ calls' = <<>>
             /\ IF ~Configured(cfg)
                  THEN pc' = "Idle" /\ loc' = NoLocals
                       /\ outcome' = Outcome("skipped_not_configured", "")
                ELSE IF RouterMissing(buy_router_info, sell_router_info)
                  THEN pc' = "Idle" /\ loc' = l0
                       /\ outcome' = Outcome("skipped_router_not_found", "")
                ELSE pc' = "Preflight" /\ loc' = l0
                     /\ outcome' = Outcome("running", "")

\* variant: the comparison is turned around
InsufficientBalance_Reversed(wallet_balance_wei, amount_in_wei) ==
    wallet_balance_wei > amount_in_wei

\* line 463: wallet_balance_wei < amount_in_wei
InsufficientBalance(wallet_balance_wei, amount_in_wei) == wallet_balance_wei < amount_in_wei

\* variant: only the buy pool's liquidity is tested
LiquidityImpactTooHigh_BuyOnly(trade_amount_usd, buy_liq_usd, sell_liq_usd) ==
    10 * trade_amount_usd > buy_liq_usd

\* lines 473-475: LIQUIDITY_IMPACT_THRESHOLD = 0.1; the comparison in doubles
\* agrees with the exact one for the integer amounts of this model
LiquidityImpactTooHigh(trade_amount_usd, buy_liq_usd, sell_liq_usd) ==
    \/ 10 * trade_amount_usd > buy_liq_usd
    \/ 10 * trade_amount_usd > sell_liq_usd

\* lines 455-478: pre-flight checks. Both reads go through resilient_rpc_call
\* (lines 459, 461): a read that fails was invoked RPC_MAX_RETRIES times, a
\* read that answers was invoked between one and RPC_MAX_RETRIES times.
T_Preflight ==
    /\ pc = "Preflight"
    /\ LET read_dec == Call("decimals", "read", "preflight", [token |-> BASE_CURRENCY_ADDRESS])
           read_bal == Call("balanceOf", "read", "preflight", [token |-> BASE_CURRENCY_ADDRESS])
       IN \/ Return("unexpected_error", RpcFailedMsg,
                    <<Invoked(read_dec, RPC_MAX_RETRIES_DEFAULT)>>, loc)
          \/ \E d \in DecimalsAnswers, n_dec \in InvocationCounts, n_bal \in InvocationCounts :
               LET amount_in_wei == args.cfg.TRADE_AMOUNT_BASE_TOKEN * Pow(10, d)
                   l1 == [loc EXCEPT !.base_decimals = d, !.amount_in_wei = amount_in_wei]
                   c_dec == Invoked(read_dec, n_dec)
                   c_bal == Invoked(read_bal, n_bal)
               IN \/ /\ n_bal = RPC_MAX_RETRIES_DEFAULT
                     /\ Return("unexpected_error", RpcFailedMsg, <<c_dec, c_bal>>, l1)
                  \/ \E b \in BalanceAnswers :
                       LET l2 == [l1 EXCEPT !.wallet_balance_wei = b]
                           trade_amount_usd == args.cfg.TRADE_AMOUNT_BASE_TOKEN
                                               * args.buy_pool.base_currency_price_usd
                       IN  IF InsufficientBalance(b, amount_in_wei)
                             THEN Return("skipped_insufficient_balance", "", <<c_dec, c_bal>>, l2)
                           ELSE IF trade_amount_usd = 0
                             THEN Return("skipped_no_usd_value", "", <<c_dec, c_bal>>, l2)
                           ELSE IF LiquidityImpactTooHigh(trade_amount_usd,
                                        args.buy_pool.liq_usd, args.sell_pool.liq_usd)
                             THEN Return("skipped_liquidity_impact", "", <<c_dec, c_bal>>, l2)
                           ELSE Goto("BuySetup", <<c_dec, c_bal>>, l2)

\* variant: every version-2 venue goes to the V2 strategy
StrategyOf_TypeIgnoredForV2(router_info) ==
    IF router_info.type = "1inch" THEN "1inch"
    ELSE IF router_info.version = 2 THEN "uniswapv2"
    ELSE IF router_info.version = 3 THEN "uniswapv3"
    ELSE "NotImplemented"

\* lines 487, 497-507 (buy) and 542, 547-557 (sell): the strategy a router
\* descriptor selects; router_info.get('type', 'uniswapv2')
StrategyOf(router_info) ==
    LET router_type == IF router_info.type = "None" THEN "uniswapv2" ELSE router_info.type
    IN  IF router_type = "1inch" THEN "1inch"
        ELSE IF router_info.version = 2
          THEN (IF router_type = "solidly" THEN "solidly" ELSE "uniswapv2")
        ELSE IF router_info.version = 3 THEN "uniswapv3"
        ELSE "NotImplemented"

\* Every result the selected strategy can hand back for one leg, over the
\* chain's possible answers.
PrepareResults(router_info, dex_name, amount_in_wei, token_in, token_out, pair_address, leg) ==
    LET strategy == StrategyOf(router_info)
    IN  IF strategy = "1inch"
          THEN {prepare_1inch_swap(router_info, amount_in_wei, token_in, token_out, leg, ch) :
                  ch \in InchScenarios}
        ELSE IF strategy = "solidly"
          THEN {prepare_solidly_swap(router_info, amount_in_wei, token_in, token_out,
                                     pair_address, leg, ch) : ch \in SolidlyScenarios}
        ELSE IF strategy = "uniswapv2"
          THEN {prepare_uniswap_v2_swap(router_info, amount_in_wei, <<token_in, token_out>>,
                                        leg, ch) : ch \in V2Scenarios}
        ELSE IF strategy = "uniswapv3"
          THEN {prepare_uniswap_v3_swap(router_info, amount_in_wei, token_in, token_out,
                                        pair_address, leg, ch) : ch \in V3Scenarios}
        ELSE {PrepFailed(<<>>, "NotImplementedError: DEX version or type is not supported")}

\* lines 481-494: the reads made before the buy leg is prepared
T_BuySetup ==
    /\ pc = "BuySetup"
    /\ LET reads == << Call("decimals", "read", "buy", [token |-> TOKEN_ADDRESS]),
                       Call("chain_id", "read", "buy", [account |-> ACCOUNT]),
                       Call("max_priority_fee", "read", "buy", [account |-> ACCOUNT]),
                       Call("get_block", "read", "buy", [block |-> "latest"]),
                       Call("get_transaction_count", "read", "buy", [account |-> ACCOUNT]) >>
       IN \* the k-th read fails; the reads before it have been assigned
          \/ \E k \in 1..Len(reads), td \in DecimalsAnswers, cid \in ChainIdAnswers,
                prio \in PriorityFeeAnswers, bf \in BaseFeeAnswers :
               Return("unexpected_error", RpcFailedMsg, SubSeq(reads, 1, k),
                      [loc EXCEPT !.target_decimals = IF k > 1 THEN td ELSE @,
                                  !.chain_id = IF k > 2 THEN cid ELSE @,
                                  !.max_priority_fee = IF k > 3 THEN prio ELSE @,
                                  !.base_fee = IF k > 4 THEN bf ELSE @,
                                  !.max_fee_per_gas = IF k > 4 THEN bf * 2 + prio ELSE @])
          \/ \E td \in DecimalsAnswers, cid \in ChainIdAnswers, prio \in PriorityFeeAnswers,
                bf \in BaseFeeAnswers, n \in NonceAnswers :
               Goto("BuyPrepare", reads,
                    [loc EXCEPT !.target_decimals = td, !.chain_id = cid,
                                !.max_priority_fee = prio, !.base_fee = bf,
                                !.max_fee_per_gas = bf * 2 + prio, !.nonce = n])

\* variant: a failed preparation is ignored and the leg goes on
T_BuyPrepare_IgnoresFailure ==
    /\ pc = "BuyPrepare"
    /\ \E r \in PrepareResults(loc.buy_router_info, args.buy_pool.dex, loc.amount_in_wei,
                               BASE_CURRENCY_ADDRESS, TOKEN_ADDRESS,
                               args.buy_pool.pairAddress, "buy") :
         Goto("BuyBuild", r.calls, [loc EXCEPT !.swap_function = r.swap])

\* lines 496-507: the buy leg's quote strategy
T_BuyPrepare ==
    /\ pc = "BuyPrepare"
    /\ \E r \in PrepareResults(loc.buy_router_info, args.buy_pool.dex, loc.amount_in_wei,
                               BASE_CURRENCY_ADDRESS, TOKEN_ADDRESS,
                               args.buy_pool.pairAddress, "buy") :
         IF r.ok THEN Goto("BuyBuild", r.calls, [loc EXCEPT !.swap_function = r.swap])
         ELSE Return("unexpected_error", r.msg, r.calls, loc)

\* lines 510-517 / 560-567: the transaction built for a swap function
BuildTransaction(swap_function, nonce, max_fee_per_gas, max_priority_fee, chain_id) ==
    [from |-> ACCOUNT, nonce |-> nonce, maxFeePerGas |-> max_fee_per_gas,
     maxPriorityFeePerGas |-> max_priority_fee, chainId |-> chain_id,
     gas |-> MAX_GAS_LIMIT, swap |-> swap_function]

\* lines 509-520: build the buy transaction
T_BuyBuild ==
    /\ pc = "BuyBuild"
    /\ LET txn == BuildTransaction(loc.swap_function, loc.nonce, loc.max_fee_per_gas,
                                   loc.max_priority_fee, loc.chain_id)
           c   == Call("build_transaction", "build", "buy", txn)
       IN \/ Return("unexpected_error", "build_transaction failed", <<c>>, loc)
          \/ Goto("BuySend", <<c>>, [loc EXCEPT !.buy_txn = txn])

\* lines 522-523: sign and submit the buy transaction
T_BuySend ==
    /\ pc = "BuySend"
    /\ LET c_sign == Call("sign_transaction", "sign", "buy", loc.buy_txn)
           c_send == Call("send_raw_transaction", "send", "buy", loc.buy_txn)
       IN \/ Return("unexpected_error", "sign_transaction failed", <<c_sign>>, loc)
          \/ Return("unexpected_error", "send_raw_transaction failed", <<c_sign, c_send>>, loc)
          \/ Goto("BuyWait", <<c_sign, c_send>>, loc)

\* variant: the status is compared with the wrong constant
BuyReverted_WrongStatus(buy_receipt) == buy_receipt.status = 2

\* line 527: buy_receipt['status'] == 0
BuyReverted(buy_receipt) == buy_receipt.status = 0

\* variant: a receipt timeout submits the buy again
T_BuyWait_Resubmits ==
    /\ pc = "BuyWait"
    /\ \/ Goto("BuySend",
               <<Call("wait_for_transaction_receipt", "wait", "buy", NoReceipt)>>, loc)
       \/ \E rc \in Receipts :
            IF BuyReverted(rc)
              THEN Return("buy_reverted", "",
                          <<Call("wait_for_transaction_receipt", "wait", "buy", rc)>>,
                          [loc EXCEPT !.buy_receipt = rc])
              ELSE Goto("ParseReceipt",
                        <<Call("wait_for_transaction_receipt", "wait", "buy", rc)>>,
                        [loc EXCEPT !.buy_receipt = rc])

\* lines 525-529: wait for the buy receipt
T_BuyWait ==
    /\ pc = "BuyWait"
    /\ \/ Return("unexpected_error", "TimeExhausted",
                 <<Call("wait_for_transaction_receipt", "wait", "buy", NoReceipt)>>, loc)
       \/ \E rc \in Receipts :
            LET c  == Call("wait_for_transaction_receipt", "wait", "buy", rc)
                l1 == [loc EXCEPT !.buy_receipt = rc]
            IN  IF BuyReverted(rc)
                  THEN Return("buy_reverted", "", <<c>>, l1)
                  ELSE Goto("ParseReceipt", <<c>>, l1)

\* variant: the zero amount is not tested
SettlementUnknown_Never(amount_received_wei) == FALSE

\* variant: only a negative amount stops the attempt
SettlementUnknown_Negative(amount_received_wei) == amount_received_wei < 0

\* line 534: amount_received_wei == 0
SettlementUnknown(amount_received_wei) == amount_received_wei = 0

\* lines 531-536: settlement verification of the buy
T_ParseReceipt ==
    /\ pc = "ParseReceipt"
    /\ LET amount_received_wei ==
               parse_receipt_for_amount_out(loc.buy_receipt, loc.buy_router_info,
                                            args.buy_pool.dex, TOKEN_ADDRESS)
           c  == Call("_parse_receipt_for_amount_out", "parse", "buy",
                      [amount |-> amount_received_wei])
           l1 == [loc EXCEPT !.amount_received_wei = amount_received_wei]
       IN  IF SettlementUnknown(amount_received_wei)
             THEN Return("settlement_unknown", "", <<c>>, l1)
             ELSE Goto("SellNonce", <<c>>, l1)

\* line 544: the sell nonce is whatever the node answers: the count before the
\* buy (not counted yet), the count after it, or a later one
T_SellNonce ==
    /\ pc = "SellNonce"
    /\ LET c == Call("get_transaction_count", "read", "sell", [account |-> ACCOUNT])
       IN \/ Return("unexpected_error", RpcFailedMsg, <<c>>, loc)
          \/ \E n \in {loc.nonce, loc.nonce + 1, loc.nonce + 2} :
               Goto("SellPrepare", <<c>>, [loc EXCEPT !.sell_nonce = n])

\* variant: the sell leg is sized by the buy leg's minimum output
T_SellPrepare_SellsBuyMinimum ==
    /\ pc = "SellPrepare"
    /\ \E r \in PrepareResults(loc.sell_router_info, args.sell_pool.dex,
                               loc.swap_function.min_out, TOKEN_ADDRESS,
                               BASE_CURRENCY_ADDRESS, args.sell_pool.pairAddress, "sell") :
         IF r.ok THEN Goto("SellBuild", r.calls, [loc EXCEPT !.sell_swap_function = r.swap])
         ELSE Return("unexpected_error", r.msg, r.calls, loc)

\* lines 546-557: the sell leg's quote strategy
T_SellPrepare ==
    /\ pc = "SellPrepare"
    /\ \E r \in PrepareResults(loc.sell_router_info, args.sell_pool.dex,
                               loc.amount_received_wei, TOKEN_ADDRESS,
                               BASE_CURRENCY_ADDRESS, args.sell_pool.pairAddress, "sell") :
         IF r.ok THEN Goto("SellBuild", r.calls, [loc EXCEPT !.sell_swap_function = r.swap])
         ELSE Return("unexpected_error", r.msg, r.calls, loc)

\* lines 559-570: build the sell transaction
T_SellBuild ==
    /\ pc = "SellBuild"
    /\ LET txn == BuildTransaction(loc.sell_swap_function, loc.sell_nonce,
                                   loc.max_fee_per_gas, loc.max_priority_fee, loc.chain_id)
           c   == Call("build_transaction", "build", "sell", txn)
       IN \/ Return("unexpected_error", "build_transaction failed", <<c>>, loc)
          \/ Goto("SellSend", <<c>>, [loc EXCEPT !.sell_txn = txn])

\* lines 572-573: sign and submit the sell transaction
T_SellSend ==
    /\ pc = "SellSend"
    /\ LET c_sign == Call("sign_transaction", "sign", "sell", loc.sell_txn)
           c_send == Call("send_raw_transaction", "send", "sell", loc.sell_txn)
       IN \/ Return("unexpected_error", "sign_transaction failed", <<c_sign>>, loc)
          \/ Return("unexpected_error", "send_raw_transaction failed", <<c_sign, c_send>>, loc)
          \/ Goto("SellWait", <<c_sign, c_send>>, loc)

\* variant: after a receipt timeout the wait is started again
T_SellWait_WaitsAgain ==
    /\ pc = "SellWait"
    /\ \/ Goto("SellWait",
               <<Call("wait_for_transaction_receipt", "wait", "sell", NoReceipt)>>, loc)
       \/ \E st \in {0, 1} :
            LET rc == [status |-> st, logs |-> <<>>]
                c  == Call("wait_for_transaction_receipt", "wait", "sell", rc)
                l1 == [loc EXCEPT !.sell_receipt = rc]
            IN  IF st = 0 THEN Return("sell_failed", "", <<c>>, l1)
                ELSE Return("sell_success", "", <<c>>, l1)

\* lines 575-580: wait for the sell receipt and report
T_SellWait ==
    /\ pc = "SellWait"
    /\ \/ Return("unexpected_error", "TimeExhausted",
                 <<Call("wait_for_transaction_receipt", "wait", "sell", NoReceipt)>>, loc)
       \/ \E st \in {0, 1} :
            LET rc == [status |-> st, logs |-> <<>>]
                c  == Call("wait_for_transaction_receipt", "wait", "sell", rc)
                l1 == [loc EXCEPT !.sell_receipt = rc]
            IN  IF st = 0 THEN Return("sell_failed", "", <<c>>, l1)
                ELSE Return("sell_success", "", <<c>>, l1)

\* execute_trade has returned: its frame is gone and the caller polls again.
T_Returned ==
    /\ pc = "Idle"
    /\ outcome # Outcome("none", "")
    /\ args' = NoArgs
    /\ loc' = NoLocals
    /\ calls' = <<>>
    /\ outcome' = Outcome("none", "")
    /\ UNCHANGED <<pc, rpcVars, mainVars, fnVars>>

TradeNext ==
    \/ T_Returned
    \/ T_Start \/ T_Preflight \/ T_BuySetup \/ T_BuyPrepare \/ T_BuyBuild \/ T_BuySend
    \/ T_BuyWait \/ T_ParseReceipt \/ T_SellNonce \/ T_SellPrepare \/ T_SellBuild
    \/ T_SellSend \/ T_SellWait

-----------------------------------------------------------------------------
(***************************************************************************)
(* trading.resilient_rpc_call(callable_func)                               *)
(*                                                                         *)
(* Byte strings are sequences of integers 0..255.  A revert payload is     *)
(* [form, bytes]: the bytes it carries and the Python value that holds     *)
(* them ("bytes" / HexBytes, "hex0x" = str with the 0x prefix, "hex" = str *)
(* without prefix); HexBytes(payload) is `bytes` for every form.           *)
(***************************************************************************)
RPC_BACKOFF_FACTOR_MS   == 500    \* RPC_BACKOFF_FACTOR = 0.5 s, in milliseconds
MaxRetriesBound == 5       \* the configured RPC_MAX_RETRIES range over 0..MaxRetriesBound

Zeros(n) == [i \in 1..n |-> 0]

\* abi encoding of an unsigned integer below 2^31 as one 32-byte word
EncodeUint(n) ==
    Zeros(28) \o << (n \div 16777216) % 256, (n \div 65536) % 256, (n \div 256) % 256, n % 256 >>

\* len(payload)
PayloadLen(p) ==
    IF p.form = "bytes" THEN Len(p.bytes)
    ELSE IF p.form = "hex" THEN 2 * Len(p.bytes)
    ELSE 2 * Len(p.bytes) + 2

\* bytes.ljust(n, b"\0")
LJust(b, n) == IF Len(b) >= n THEN b ELSE b \o Zeros(n - Len(b))

\* line 37: HexBytes(payload)[4:] if len(payload) % 32 else HexBytes(payload)
StripSelector(p) ==
    IF PayloadLen(p) % 32 # 0 THEN SubSeq(p.bytes, 5, Len(p.bytes)) ELSE p.bytes

\* The k-th 32-byte word (k from 0) of a byte string
WordAt(data, k) == SubSeq(data, 32 * k + 1, 32 * k + 32)

\* eth_abi's strict decoding of an unsigned integer of `size` bytes: the
\* bytes in front of the value must all be zero
PaddingIsZero(word, size) == \A i \in 1..(32 - size) : word[i] = 0

\* line 38: decode(["uint256", "uint160", "uint32", "uint256"], data.ljust(128))
\* returns the words, or raises when a padding is not empty
DecodeQuoterV2(data) ==
    LET d == LJust(data, 128)
    IN  IF PaddingIsZero(WordAt(d, 1), 20) /\ PaddingIsZero(WordAt(d, 2), 4)
          THEN [ok |-> TRUE,  words |-> <<WordAt(d, 0), WordAt(d, 1), WordAt(d, 2), WordAt(d, 3)>>]
          ELSE [ok |-> FALSE, words |-> <<>>]

\* line 34: err.args[0].get("data") if err.args and isinstance(err.args[0], dict) else None
\* An exception is [type, args0, payload]: args0 tells what err.args[0] is
\* ("dict" with its "data" entry in payload, "str", or "none" for empty args).
NoPayload == [form |-> "None", bytes |-> <<>>]
PayloadOf(err) == IF err.args0 = "dict" THEN err.payload ELSE NoPayload

\* line 35: payload and len(payload) > 4
PayloadUsable(p) == p.form # "None" /\ PayloadLen(p) > 4

\* A revert payload encoding (amountOut, priceMarker, ticksCrossed, gasEstimate),
\* with or without a 4-byte selector in front.
QuotePayloadBytes(amountOut, priceMarkerWord, ticksCrossed, gasEstimate, selector) ==
    (IF selector THEN <<250, 206, 15, 1>> ELSE <<>>)
    \o EncodeUint(amountOut) \o priceMarkerWord \o EncodeUint(ticksCrossed)
    \o EncodeUint(gasEstimate)

\* 2^96 as a 32-byte word (a sqrtPriceX96 of price 1)
WordTwoPow96 == Zeros(19) \o <<1>> \o Zeros(12)

PayloadForms  == {"bytes", "hex0x", "hex"}

\* What one invocation of callable_func may do.  `amountOut` is the amount a
\* quote payload encodes (-1 when the outcome carries no payload worth decoding,
\* -2 when it carries the payload of another error).
OpReturns == {[t |-> "return", v |-> 42, args0 |-> "none", payload |-> NoPayload,
               amountOut |-> -1]}
OpQuoteReverts ==
    {[t |-> "ContractLogicError", v |-> 0, args0 |-> "dict",
      payload |-> [form |-> f,
                   bytes |-> QuotePayloadBytes(a, m, tc, 5, sel)],
      amountOut |-> a] :
        f \in PayloadForms, a \in {0, 100}, m \in {EncodeUint(79), WordTwoPow96},
        tc \in {0, 1}, sel \in BOOLEAN}
OpPlainReverts ==
    {[t |-> "ContractLogicError", v |-> 0, args0 |-> a0, payload |-> pl, amountOut |-> -1] :
        a0 \in {"str", "none"}, pl \in {NoPayload}}
    \cup {[t |-> "ContractLogicError", v |-> 0, args0 |-> "dict", payload |-> pl,
           amountOut |-> -1] :
            pl \in {NoPayload, [form |-> "hex0x", bytes |-> <<>>]}}
\* Reverts whose data is not a quote: Panic(uint256) with code 0x11 and
\* Error(string) with the reason "abc", as the node reports them
PanicPayloadBytes == <<78, 72, 123, 113>> \o EncodeUint(17)
ErrorStringPayloadBytes ==
    <<8, 195, 121, 160>> \o EncodeUint(32) \o EncodeUint(3) \o <<97, 98, 99>> \o Zeros(29)
OpErrorReverts ==
    {[t |-> "ContractLogicError", v |-> 0, args0 |-> "dict",
      payload |-> [form |-> f, bytes |-> b], amountOut |-> -2] :
        f \in PayloadForms, b \in {PanicPayloadBytes, ErrorStringPayloadBytes}}
OpOtherFailures ==
    {[t |-> e, v |-> 0, args0 |-> "str", payload |-> NoPayload, amountOut |-> -1] :
        e \in {"TimeoutError", "ConnectionError"}}
OpOutcomes ==
    OpReturns \cup OpQuoteReverts \cup OpErrorReverts \cup OpPlainReverts \cup OpOtherFailures

NoException == [t |-> "None", v |-> 0, args0 |-> "none", payload |-> NoPayload, amountOut |-> -1]
NoResult    == [kind |-> "none", val |-> 0, word |-> <<>>, exc |-> "None", cause |-> NoException]

\* `history` records what every invocation of callable_func did, in order;
\* `waits` every time.sleep of the call, in milliseconds.
RpcIdle == [pc |-> "Idle", max |-> 0, i |-> 0, invoked |-> 0, waits |-> <<>>,
            history |-> <<>>,
            last_exception |-> NoException, result |-> NoResult]

\* line 48: i < RPC_MAX_RETRIES - 1 - a wait follows this failed invocation
WaitsAfter(i, max) == i < max - 1

\* variant: the wait grows linearly with the attempt number
BackoffWait_Linear(i) == RPC_BACKOFF_FACTOR_MS * (i + 1)

\* line 49: wait = RPC_BACKOFF_FACTOR * (2 ** i)
BackoffWait(i) == RPC_BACKOFF_FACTOR_MS * Pow(2, i)

\* lines 31-40: what the `except ContractLogicError` clause does with err:
\* "return" the decoded amount, "raise" (decode failed inside the handler, the
\* exception leaves resilient_rpc_call) or "retry" (fall through to line 48)
OnContractLogicError(err) ==
    LET payload == PayloadOf(err)
        decoded == DecodeQuoterV2(StripSelector(payload))
    IN  IF ~PayloadUsable(payload)
          THEN [act |-> "retry", word |-> <<>>]
        ELSE IF decoded.ok THEN [act |-> "return", word |-> decoded.words[1]]
        ELSE [act |-> "raise", word |-> <<>>]

\* resilient_rpc_call is entered (line 20-26) under a configured RPC_MAX_RETRIES
R_Call ==
    /\ rpc.pc = "Idle"
    /\ rpc.result = NoResult
    /\ \E max \in 0..MaxRetriesBound :
         rpc' = [RpcIdle EXCEPT !.pc = "Loop", !.max = max]
    /\ UNCHANGED <<tradeVars, mainVars, fnVars>>

\* lines 28-53: one iteration of the retry loop
R_Invoke ==
    /\ rpc.pc = "Loop"
    /\ rpc.i < rpc.max
    /\ \E o \in OpOutcomes :
         LET r0 == [rpc EXCEPT !.invoked = @ + 1, !.history = Append(@, o)]
             retry == [r0 EXCEPT !.last_exception = o,
                                 !.waits = IF WaitsAfter(rpc.i, rpc.max)
                                             THEN Append(@, BackoffWait(rpc.i)) ELSE @,
                                 !.i = @ + 1]
             h == OnContractLogicError(o)
         IN  rpc' =
               IF o.t = "return"
                 THEN [r0 EXCEPT !.pc = "Done",
                                 !.result = [NoResult EXCEPT !.kind = "return", !.val = o.v]]
               ELSE IF o.t = "ContractLogicError" /\ h.act = "return"
                 THEN [r0 EXCEPT !.pc = "Done", !.last_exception = o,
                                 !.result = [NoResult EXCEPT !.kind = "decoded", !.word = h.word]]
               ELSE IF o.t = "ContractLogicError" /\ h.act = "raise"
                 THEN [r0 EXCEPT !.pc = "Done", !.last_exception = o,
                                 !.result = [NoResult EXCEPT !.kind = "raise",
                                                             !.exc = "DecodingError"]]
               ELSE retry
    /\ UNCHANGED <<tradeVars, mainVars, fnVars>>

\* variant: the final exception is raised without its cause
R_Exhausted_NoCause ==
    /\ rpc.pc = "Loop"
    /\ rpc.i >= rpc.max
    /\ rpc' = [rpc EXCEPT !.pc = "Done",
                          !.result = [NoResult EXCEPT !.kind = "raise", !.exc = RpcFailedMsg]]
    /\ UNCHANGED <<tradeVars, mainVars, fnVars>>

\* line 56: the loop is over without a return
R_Exhausted ==
    /\ rpc.pc = "Loop"
    /\ rpc.i >= rpc.max
    /\ rpc' = [rpc EXCEPT !.pc = "Done",
                          !.result = [NoResult EXCEPT !.kind = "raise", !.exc = RpcFailedMsg,
                                                      !.cause = rpc.last_exception]]
    /\ UNCHANGED <<tradeVars, mainVars, fnVars>>

\* the call is over; the next wrapped call starts afresh
R_Returned ==
    /\ rpc.pc = "Done"
    /\ rpc' = RpcIdle
    /\ UNCHANGED <<tradeVars, mainVars, fnVars>>

RpcNext == R_Call \/ R_Invoke \/ R_Exhausted \/ R_Returned

-----------------------------------------------------------------------------
(***************************************************************************)
(* main.py: the poller, analyze_and_trade and its own execute_trade        *)
(***************************************************************************)
TRADE_COOLDOWN_SECONDS == 60
MIN_LIQUIDITY_USD      == 1000
MIN_SPREAD_PERCENT     == 1

MaxTime   == 300           \* the clock is followed up to MaxTime seconds
TimeSteps == {20, 50}      \* how much time may pass between two steps

\* pools as main() builds them from the price feed (lines 311-319); feeBps is
\* the feed's fee in basis points (0 when the feed has none)
MainPool(dex, price, liq_usd, feeBps) ==
    [dex |-> dex, price |-> price, liq_usd |-> liq_usd, feeBps |-> feeBps]
PairLists ==
    { << MainPool(Str_uni_v2, 100, 5000, 0), MainPool(Str_uni_v3, 103, 5000, 30) >>,
      << MainPool(Str_uni_v3, 100, 5000, 30), MainPool(Str_uni_v2, 103, 5000, 0) >>,
      << MainPool(Str_uni_v2, 103, 5000, 0), MainPool(Str_uni_v2, 100, 5000, 0) >>,
      << MainPool(Str_uni_v3, 100, 5000, 30), MainPool(Str_odd, 105, 2000, 0) >>,
      << MainPool(Str_cake, 100, 5000, 25), MainPool(Str_uni_v2, 105, 2000, 0) >>,
      << MainPool(Str_uni_v2, 1000, 5000, 0), MainPool(Str_uni_v3, 1005, 5000, 30) >>,
      << MainPool(Str_uni_v3, 1000, 5000, 30), MainPool(Str_cake, 1012, 5000, 25) >>,
      << MainPool(Str_uni_v2, 100, 5000, 0), MainPool(Str_uni_v3, 120, 500, 30) >>,
      << MainPool(Str_uni_v2, 0, 5000, 0), MainPool(Str_uni_v3, 103, 5000, 30) >>,
      << MainPool(Str_uni_v3, -100, 5000, 30), MainPool(Str_uni_v2, -50, 5000, 0) >>,
      << MainPool(Str_uni_v2, 100, 5000, 0) >> }

\* variant: off by one, the window's last instant still counts as inside
CooldownActive_Inclusive(t, last_ts) == t - last_ts <= TRADE_COOLDOWN_SECONDS

\* line 252: time.time() - last_trade_attempt_ts < TRADE_COOLDOWN_SECONDS
CooldownActive(t, last_ts) == t - last_ts < TRADE_COOLDOWN_SECONDS

\* line 254: [p for p in pairs if p.get('liq_usd') >= MIN_LIQUIDITY_USD]
LiquidPools(pairs) == SelectSeq(pairs, LAMBDA p : p.liq_usd >= MIN_LIQUIDITY_USD)

\* line 259: liquid_pools.sort(key=lambda x: x['price']) (stable, ascending)
RECURSIVE SortByPrice(_)
SortByPrice(pools) ==
    IF pools = <<>> THEN <<>>
    ELSE LET lo  == SetMin({pools[i].price : i \in 1..Len(pools)})
             idx == SetMin({i \in 1..Len(pools) : pools[i].price = lo})
         IN  <<pools[idx]>> \o
             SortByPrice([j \in 1..(Len(pools) - 1) |->
                             IF j < idx THEN pools[j] ELSE pools[j + 1]])

\* lines 262, 266: spread = (sell - buy) / buy * 100;  spread >= MIN_SPREAD_PERCENT.
\* buy_pool has the lowest price, so sell - buy >= 0: with a negative buy price
\* the quotient is <= 0 and the threshold is not reached; with a buy price of 0
\* the division raises ZeroDivisionError, which the polling loop catches
\* (line 322), and execute_trade is not called either.
SpreadReached(buy_pool, sell_pool) ==
    /\ buy_pool.price > 0
    /\ (sell_pool.price - buy_pool.price) * 100 >= MIN_SPREAD_PERCENT * buy_pool.price

NoMainPool   == MainPool(<<>>, 0, 0, 0)
NoMainLocals == [buy_pool |-> NoMainPool, sell_pool |-> NoMainPool,
                 buy_router_info |-> NoneInfo, sell_router_info |-> NoneInfo,
                 target_decimals_bound |-> FALSE, amount_received_wei |-> 0]
NoEval == [n |-> 0, t |-> 0, last_ts |-> 0, passed |-> FALSE, started |-> FALSE]

\* TRADE_AMOUNT_BASE_TOKEN of the run (main.py line 18); main() has checked the rest
TradeAmounts == {0, 1}

\* the clock advances (at any point of the program)
M_Tick ==
    /\ \E dt \in TimeSteps :
         /\ now + dt <= MaxTime
         /\ now' = now + dt
    /\ UNCHANGED <<last_trade_attempt_ts, mpc, mloc, mcalls, last_eval, starts, ts_writes>>
    /\ UNCHANGED <<tradeVars, rpcVars, fnVars>>

\* analyze_and_trade(pairs), lines 251-267, up to the call of execute_trade
M_Analyze ==
    /\ mpc = "Poll"
    /\ \E pairs \in PairLists :
         LET liquid_pools == SortByPrice(LiquidPools(pairs))
             buy_pool     == liquid_pools[1]
             sell_pool    == liquid_pools[Len(liquid_pools)]
             ev == [n |-> 1, t |-> now, last_ts |-> last_trade_attempt_ts,
                    passed |-> FALSE, started |-> FALSE]
         IN  IF CooldownActive(now, last_trade_attempt_ts)
               THEN /\ last_eval' = ev
                    /\ UNCHANGED <<mpc, mloc>>
             ELSE IF Len(LiquidPools(pairs)) < 2 \/ ~SpreadReached(buy_pool, sell_pool)
               THEN /\ last_eval' = [ev EXCEPT !.passed = TRUE]
                    /\ UNCHANGED <<mpc, mloc>>
             ELSE /\ last_eval' = [ev EXCEPT !.passed = TRUE]
                  /\ mpc' = "Exec"
                  /\ mloc' = [NoMainLocals EXCEPT !.buy_pool = buy_pool,
                                                  !.sell_pool = sell_pool]
    /\ mcalls' = <<>>
    /\ ts_writes' = 0
    /\ UNCHANGED <<now, last_trade_attempt_ts, starts>>
    /\ UNCHANGED <<tradeVars, rpcVars, fnVars>>

\* main.execute_trade lines 105-125: configuration and router checks, then
\* the cooldown timestamp is written
M_ExecStart ==
    /\ mpc = "Exec"
    /\ \E amount \in TradeAmounts :
         LET buy_router_info  == main_find_router_info(mloc.buy_pool.dex, DEX_ROUTERS)
             sell_router_info == main_find_router_info(mloc.sell_pool.dex, DEX_ROUTERS)
         IN  IF ~(amount > 0) \/ RouterMissing(buy_router_info, sell_router_info)
               THEN /\ mpc' = "Poll"
                    /\ mloc' = NoMainLocals
                    /\ UNCHANGED <<last_trade_attempt_ts, last_eval, starts, ts_writes>>
               ELSE /\ last_trade_attempt_ts' = now
                    /\ starts' = Append(starts, now)
                    /\ ts_writes' = ts_writes + 1
                    /\ last_eval' = [last_eval EXCEPT !.started = TRUE]
                    /\ mpc' = "BuyQuote"
                    /\ mloc' = [mloc EXCEPT !.buy_router_info = buy_router_info,
                                            !.sell_router_info = sell_router_info]
    /\ UNCHANGED <<now, mcalls>>
    /\ UNCHANGED <<tradeVars, rpcVars, fnVars>>

\* the `except Exception` of line 248 / a `return`: back to the polling loop
MainReturn(cs) ==
    /\ mpc' = "Poll"
    /\ mcalls' = mcalls \o cs
    /\ mloc' = NoMainLocals
    /\ UNCHANGED <<now, last_trade_attempt_ts, last_eval, starts, ts_writes>>
    /\ UNCHANGED <<tradeVars, rpcVars, fnVars>>

MainGoto(next, cs, newloc) ==
    /\ mpc' = next
    /\ mcalls' = mcalls \o cs
    /\ mloc' = newloc
    /\ UNCHANGED <<now, last_trade_attempt_ts, last_eval, starts, ts_writes>>
    /\ UNCHANGED <<tradeVars, rpcVars, fnVars>>

\* lines 131-164: decimals(), then the quote of the buy leg by router version
M_BuyQuote ==
    /\ mpc = "BuyQuote"
    /\ \E ok \in BOOLEAN :
         LET v == mloc.buy_router_info.version
         IN  IF ~ok THEN MainReturn(<<"decimals">>)
             ELSE IF v = 2
               THEN \/ MainGoto("BuySend", <<"decimals", "getAmountsOut">>, mloc)
                    \/ MainReturn(<<"decimals", "getAmountsOut">>)
             ELSE IF v = 3
               THEN \/ MainGoto("BuySend", <<"decimals", "decimals">>,
                                [mloc EXCEPT !.target_decimals_bound = TRUE])
                    \/ MainReturn(<<"decimals", "decimals">>)
             ELSE MainReturn(<<"decimals">>)

\* lines 167-178: the chain and wallet operations of the buy submission, in the
\* order the code evaluates them (the payload dict of lines 170-174 reads the
\* nonce before the chain id)
BuySendCalls ==
    << "max_priority_fee", "get_block", "get_transaction_count", "chain_id",
       "estimate_gas", "build_transaction", "sign_transaction", "send_buy" >>

\* lines 167-179: fees, nonce, chain id, gas estimate, build, sign,
\* send_raw_transaction; any of them may raise, which ends the attempt in the
\* `except Exception` of line 248 with the calls made so far
M_BuySend ==
    /\ mpc = "BuySend"
    /\ \/ MainGoto("BuyWait", BuySendCalls, mloc)
       \/ \E k \in 1..Len(BuySendCalls) : MainReturn(SubSeq(BuySendCalls, 1, k))

\* lines 180-196: the buy receipt and the Transfer log naming the wallet
M_BuyWait ==
    /\ mpc = "BuyWait"
    /\ \/ MainReturn(<<"wait_buy">>)
       \/ \E status \in {0, 1}, amount \in {0, 7} :
            IF status = 0 \/ amount = 0
              THEN MainReturn(<<"wait_buy">>)
              ELSE MainGoto("SellQuote", <<"wait_buy">>,
                            [mloc EXCEPT !.amount_received_wei = amount])

\* lines 199-228: target_decimals is bound by the V3 buy branch only, so line
\* 199 raises NameError after a V2 buy; then the quote of the sell leg
M_SellQuote ==
    /\ mpc = "SellQuote"
    /\ LET v == mloc.sell_router_info.version
       IN  IF ~mloc.target_decimals_bound THEN MainReturn(<<>>)
           ELSE IF v = 2
             THEN \/ MainGoto("SellSend", <<"getAmountsOut">>, mloc)
                  \/ MainReturn(<<"getAmountsOut">>)
           ELSE IF v = 3 THEN MainGoto("SellSend", <<>>, mloc)
           ELSE MainReturn(<<>>)

\* lines 231-239: the sell submission reads the nonce and the chain id again
\* and reuses the fees of the buy leg
SellSendCalls ==
    << "get_transaction_count", "chain_id", "estimate_gas", "build_transaction",
       "sign_transaction", "send_sell" >>

\* lines 230-240: nonce, chain id, gas estimate, build, sign,
\* send_raw_transaction; any of them may raise (line 248)
M_SellSend ==
    /\ mpc = "SellSend"
    /\ \/ MainGoto("SellWait", SellSendCalls, mloc)
       \/ \E k \in 1..Len(SellSendCalls) : MainReturn(SubSeq(SellSendCalls, 1, k))

\* lines 242-249
M_SellWait ==
    /\ mpc = "SellWait"
    /\ MainReturn(<<"wait_sell">>)

MainNext ==
    \/ M_Tick \/ M_Analyze \/ M_ExecStart \/ M_BuyQuote \/ M_BuySend \/ M_BuyWait
    \/ M_SellQuote \/ M_SellSend \/ M_SellWait

-----------------------------------------------------------------------------
(***************************************************************************)
(* Functions applied to drawn inputs                                       *)
(***************************************************************************)
MaxDir == 3                \* a drawn router directory has at most MaxDir entries

\* Directory keys and feed identifiers the router resolution is applied to
DirKeys       == {Str_uni_v2, Str_uni_v3, Str_Uni_v2, Str_aero, Str_baseswap}
RouterQueries == {Str_uni, Str_Uni, Str_uni_v2, Str_Aero, Str_swap, Str_base,
                  Str_baseswap, Str_BaseSwap, Str_cake, Str_UNI_accent}
KeyAddress(key) ==
    IF key = Str_uni_v2 THEN "0xA1" ELSE IF key = Str_uni_v3 THEN "0xA2"
    ELSE IF key = Str_Uni_v2 THEN "0xA3" ELSE IF key = Str_aero THEN "0xA4" ELSE "0xA5"
DirEntries ==
    {[key |-> k, info |-> [address |-> KeyAddress(k), version |-> v, type |-> "None",
                           factory |-> "None", quoter |-> "None"]] :
        k \in DirKeys, v \in {2, 3}}
\* a dict holds each key once
Directories ==
    {d \in SeqsUpTo(DirEntries, MaxDir) :
        \A i, j \in 1..Len(d) : i # j => d[i].key # d[j].key}

\* find_router_info(dex_id, routers) is called
F_FindRouter ==
    /\ fn.op = "none"
    /\ \E dex_id \in RouterQueries, routers \in Directories :
         fn' = [op |-> "find_router_info", dex_id |-> dex_id, routers |-> routers,
                result |-> find_router_info(dex_id, routers)]
    /\ UNCHANGED <<tradeVars, rpcVars, mainVars>>

\* Quotes and tolerances the slippage floor is applied to
MaxQuote == 600
SlippagePercents == {0, 1, 7}

\* min_amount_out = int(expected_amount_out * (1 - SLIPPAGE_TOLERANCE_PERCENT / 100.0)),
\* the line shared by the four strategies, for a configured tolerance s
F_Slippage ==
    /\ fn.op = "none"
    /\ \E e \in 0..MaxQuote, s \in SlippagePercents :
         fn' = [op |-> "slippage", expected |-> e, percent |-> s,
                result |-> SlippageMinFor(e, s)]
    /\ UNCHANGED <<tradeVars, rpcVars, mainVars>>

\* The Solidly venue descriptor, with and without its factory address
SolidlyRouterInfos == {DEX_ROUTERS[3].info, [DEX_ROUTERS[3].info EXCEPT !.factory = "None"]}

\* The chain's answers to the Solidly strategy: those of the trade, a pair
\* with an empty second reserve and the two quotes in every combination
SolidlyFnScenarios ==
    SolidlyScenarios
    \cup {[SolidlyBase EXCEPT !.reserves = Value(<<5, 0, 0>>)]}
    \cup {[SolidlyBase EXCEPT !.volatile = a, !.stable = b] :
            a \in {Value(<<1, 100>>), Decoded(100), RpcFailed},
            b \in {Value(<<1, 90>>), RpcFailed}}

\* trading._prepare_solidly_swap applied to a descriptor, a pair address and
\* the chain's answers
F_PrepareSolidly ==
    /\ fn.op = "none"
    /\ \E router_info \in SolidlyRouterInfos, pair_address \in {"None", "PairBuy"},
          leg \in {"buy", "sell"}, ch \in SolidlyFnScenarios :
         LET token_in  == IF leg = "buy" THEN BASE_CURRENCY_ADDRESS ELSE TOKEN_ADDRESS
             token_out == IF leg = "buy" THEN TOKEN_ADDRESS ELSE BASE_CURRENCY_ADDRESS
         IN  fn' = [op |-> "prepare_solidly_swap", router_info |-> router_info,
                    pair_address |-> pair_address, leg |-> leg, ch |-> ch,
                    result |-> prepare_solidly_swap(router_info, 2, token_in, token_out,
                                                    pair_address, leg, ch)]
    /\ UNCHANGED <<tradeVars, rpcVars, mainVars>>

\* What the chain may hold for the five fee tiers, and what the quoter may
\* answer to its two calls
PoolStates == {"0x0", "nocode", "live", "raise", "coderaise"}
PoolPatterns == {<<a, b, c, d, e>> : a \in PoolStates, b \in PoolStates, c \in PoolStates,
                                     d \in PoolStates, e \in PoolStates}
Q1Answers == {Value(<<100, 79, 1, 5>>), Value(<<0, 79, 1, 5>>), Decoded(100), RpcFailed}
Q2Answers == {Value(90), Decoded(90), RpcFailed}
V3FnScenarios ==
    V3Scenarios
    \cup {[V3Base EXCEPT !.pools = p] : p \in PoolPatterns}
    \cup {[V3Base EXCEPT !.q1 = a, !.q2 = b] : a \in Q1Answers, b \in Q2Answers}

\* trading._prepare_uniswap_v3_swap applied to the V3 venue descriptor, with
\* and without a pair address from the feed, and the chain's answers
F_PrepareV3 ==
    /\ fn.op = "none"
    /\ \E pair_address \in {"None", "PairBuy"}, ch \in V3FnScenarios :
         fn' = [op |-> "prepare_uniswap_v3_swap", pair_address |-> pair_address, ch |-> ch,
                result |-> prepare_uniswap_v3_swap(DEX_ROUTERS[2].info, 2,
                                                   BASE_CURRENCY_ADDRESS, TOKEN_ADDRESS,
                                                   pair_address, "buy", ch)]
    /\ UNCHANGED <<tradeVars, rpcVars, mainVars>>

\* trading._parse_receipt_for_amount_out applied to a mined receipt of a V3 and
\* of a V2 venue, under a Uniswap and a PancakeSwap venue name
F_ParseReceipt ==
    /\ fn.op = "none"
    /\ \E router_info \in {DEX_ROUTERS[1].info, DEX_ROUTERS[2].info},
          dex_name \in {Str_uni_v3, Str_pancake, Str_PancakeSwap},
          logs \in SeqsUpTo(TradeLogs \cup {[LogTokenToMe EXCEPT !.data = <<5>>],
                                          LogSwapElsewhere},
                            MaxLogs + 1) :
         LET receipt == [status |-> 1, logs |-> logs]
         IN  fn' = [op |-> "parse_receipt_for_amount_out", router_info |-> router_info,
                    dex_name |-> dex_name, receipt |-> receipt,
                    result |-> parse_receipt_for_amount_out(receipt, router_info, dex_name,
                                                            TOKEN_ADDRESS)]
    /\ UNCHANGED <<tradeVars, rpcVars, mainVars>>

\* the application is over; the next one draws new inputs
F_Done ==
    /\ fn.op # "none"
    /\ fn' = [op |-> "none"]
    /\ UNCHANGED <<tradeVars, rpcVars, mainVars>>

FnNext ==
    F_FindRouter \/ F_Slippage \/ F_PrepareSolidly \/ F_PrepareV3 \/ F_ParseReceipt \/ F_Done

-----------------------------------------------------------------------------
(***************************************************************************)
(* Specifications                                                          *)
(***************************************************************************)
TradeInit ==
    /\ pc = "Idle" /\ args = NoArgs /\ loc = NoLocals /\ calls = <<>>
    /\ outcome = Outcome("none", "")
RpcInit  == rpc = RpcIdle
\* time.time() is far beyond the cooldown when the program starts
MainInit ==
    /\ now = TRADE_COOLDOWN_SECONDS
    /\ last_trade_attempt_ts = 0
    /\ mpc = "Poll" /\ mloc = NoMainLocals /\ mcalls = <<>>
    /\ last_eval = NoEval /\ starts = <<>> /\ ts_writes = 0

FnInit == fn = [op |-> "none"]

Init == TradeInit /\ RpcInit /\ MainInit /\ FnInit

\* trading.execute_trade
Spec     == Init /\ [][TradeNext]_vars
\* trading.resilient_rpc_call
SpecRpc  == Init /\ [][RpcNext]_vars
\* main.py
SpecMain == Init /\ [][MainNext]_vars
\* dex_utils.find_router_info and the slippage floor, on drawn inputs
SpecFn   == Init /\ [][FnNext]_vars

-----------------------------------------------------------------------------
(***************************************************************************)
(* Properties of trading.execute_trade (specification Spec)                *)
(***************************************************************************)
\* Positions of the call log that satisfy a condition
CallsWhere(Cond(_)) == {i \in 1..Len(calls) : Cond(calls[i])}

IsSellStep(c)     == c.leg = "sell"
IsBuySubmit(c)    == c.kind = "send" /\ c.leg = "buy"
IsSellSubmit(c)   == c.kind = "send" /\ c.leg = "sell"
IsParse(c)        == c.kind = "parse"
IsPreflightRead(c) ==
    c.kind = "read" /\ c.leg = "preflight" /\ c.op \in {"decimals", "balanceOf"}
IsBuyReceiptOk(c) ==
    c.op = "wait_for_transaction_receipt" /\ c.leg = "buy" /\ c.arg.status = 1
IsParseNonZero(c) == c.kind = "parse" /\ c.arg.amount > 0

\* An attempt has gone past the configuration and router checks
AttemptStarted == outcome.status \notin {"none", "skipped_not_configured",
                                         "skipped_router_not_found"}

\* C1: every sell-leg step (sell nonce read, sell quote, sell build, sign or
\* submission) of an attempt comes after the buy receipt was obtained with
\* status 1 and after a non-zero amount was decoded from it.
C1_SellOnlyAfterConfirmedBuy ==
    /\ \A i \in CallsWhere(IsSellStep) :
         \E j \in CallsWhere(IsBuyReceiptOk), k \in CallsWhere(IsParseNonZero) :
            j < k /\ k < i
    /\ pc \in {"SellNonce", "SellPrepare", "SellBuild", "SellSend", "SellWait"}
         => loc.buy_receipt.status = 1 /\ loc.amount_received_wei > 0

C1_Witness ==
    /\ CallsWhere(IsSellSubmit) # {}
    /\ loc.buy_receipt.status = 1
    /\ loc.amount_received_wei > 0

\* C2: when the buy receipt has status 1 and the settlement verifier yields 0,
\* execute_trade is back in Idle and the attempt holds no sell-leg step at
\* all: no sell read, quote, build, signature or submission.
C2_UnknownSettlementStopsAttempt ==
    ( /\ loc.buy_receipt.status = 1
      /\ pc # "ParseReceipt"
      /\ parse_receipt_for_amount_out(loc.buy_receipt, loc.buy_router_info,
                                      args.buy_pool.dex, TOKEN_ADDRESS) = 0 )
    => /\ pc = "Idle"
       /\ outcome.status = "settlement_unknown"
       /\ CallsWhere(IsSellStep) = {}

C2_Witness ==
    /\ outcome.status = "settlement_unknown"
    /\ loc.buy_receipt.status = 1
    /\ \E i \in 1..Len(loc.buy_receipt.logs) : loc.buy_receipt.logs[i] = LogTokenToOther
    /\ CallsWhere(IsParse) # {}

\* C3: when the buy transaction is mined with status 0 the attempt is over:
\* execute_trade is Idle, the receipt is not parsed, no sell-leg step is
\* made and the buy was submitted once only.
C3_RevertedBuyEndsAttempt ==
    loc.buy_receipt.status = 0
    => /\ pc = "Idle"
       /\ outcome.status = "buy_reverted"
       /\ CallsWhere(IsParse) = {}
       /\ CallsWhere(IsSellStep) = {}
       /\ Cardinality(CallsWhere(IsBuySubmit)) = 1

C3_Witness ==
    /\ loc.buy_receipt.status = 0
    /\ pc = "Idle"
    /\ CallsWhere(IsBuySubmit) # {}

\* C4: an attempt submits at most one buy transaction and at most one sell
\* transaction, whatever receipt, timeout or error follows the submission.
C4_AtMostOneSubmissionPerLeg ==
    /\ Cardinality(CallsWhere(IsBuySubmit)) <= 1
    /\ Cardinality(CallsWhere(IsSellSubmit)) <= 1

C4_Witness ==
    /\ pc = "Idle"
    /\ outcome \in {Outcome("sell_failed", ""), Outcome("unexpected_error", "TimeExhausted")}
    /\ Cardinality(CallsWhere(IsBuySubmit)) = 1
    /\ Cardinality(CallsWhere(IsSellSubmit)) = 1

\* The USD notional of the attempt exceeds 10% of the buy pool's or of the
\* sell pool's reported liquidity
NotionalExceedsTenth ==
    LET usd == args.cfg.TRADE_AMOUNT_BASE_TOKEN * args.buy_pool.base_currency_price_usd
    IN  \/ 10 * usd > args.buy_pool.liq_usd
        \/ 10 * usd > args.sell_pool.liq_usd

\* C7 as stated: when the notional exceeds 10% of the buy pool's or of the
\* sell pool's liquidity the attempt is rejected with no on-chain call made.
C7_AsStated ==
    ( /\ AttemptStarted
      /\ pc # "Preflight"
      /\ NotionalExceedsTenth )
    => pc = "Idle" /\ calls = <<>>

\* C7 (amended): when the notional exceeds 10% of the buy pool's or of the
\* sell pool's liquidity the attempt ends in pre-flight: no quote is
\* requested and nothing is built, signed or submitted; the only on-chain
\* calls made are the pre-flight reads decimals() and then balanceOf() of the
\* base currency, each made through resilient_rpc_call and so invoked between
\* one and RPC_MAX_RETRIES times.
C7_RejectedAfterPreflightReadsOnly ==
    ( /\ AttemptStarted
      /\ pc # "Preflight"
      /\ NotionalExceedsTenth )
    => /\ pc = "Idle"
       /\ CallsWhere(IsPreflightRead) = 1..Len(calls)
       /\ \A i \in 1..Len(calls) :
            /\ calls[i].op = <<"decimals", "balanceOf">>[i]
            /\ calls[i].arg.token = BASE_CURRENCY_ADDRESS
            /\ calls[i].invocations \in 1..RPC_MAX_RETRIES_DEFAULT

C7_Witness ==
    /\ outcome.status = "skipped_liquidity_impact"
    /\ Len(calls) = 2
    /\ calls[1].invocations = 1
    /\ calls[2].invocations = RPC_MAX_RETRIES_DEFAULT
    /\ 10 * args.cfg.TRADE_AMOUNT_BASE_TOKEN * args.buy_pool.base_currency_price_usd
         <= args.buy_pool.liq_usd
    /\ 10 * args.cfg.TRADE_AMOUNT_BASE_TOKEN * args.buy_pool.base_currency_price_usd
         > args.sell_pool.liq_usd

\* C8: when the wallet's balance of the base currency is below the trade size
\* in wei, the attempt is over before any quote is requested and before any
\* transaction is built, signed or submitted: its calls are pre-flight reads.
C8_InsufficientBalanceAborts ==
    ( /\ AttemptStarted
      /\ pc # "Preflight"
      /\ \E i \in 1..Len(calls) : calls[i].op = "balanceOf"
      /\ loc.wallet_balance_wei < loc.amount_in_wei )
    => /\ pc = "Idle"
       /\ CallsWhere(IsPreflightRead) = 1..Len(calls)

C8_Witness ==
    /\ outcome.status = "skipped_insufficient_balance"
    /\ loc.wallet_balance_wei > 0
    /\ loc.wallet_balance_wei < loc.amount_in_wei
    /\ Len(calls) = 2

\* C9: when find_router_info has no descriptor for the buy venue or for the
\* sell venue, execute_trade starts no attempt, makes no on-chain call and
\* returns normally (no exception).
C9_UnknownVenueIsSkipped ==
    ( /\ outcome.status # "none"
      /\ \/ find_router_info(args.buy_pool.dex, DEX_ROUTERS) = NoneInfo
         \/ find_router_info(args.sell_pool.dex, DEX_ROUTERS) = NoneInfo )
    => /\ pc = "Idle"
       /\ calls = <<>>
       /\ outcome \in {Outcome("skipped_router_not_found", ""),
                       Outcome("skipped_not_configured", "")}

C9_Witness ==
    /\ outcome = Outcome("skipped_router_not_found", "")
    /\ find_router_info(args.buy_pool.dex, DEX_ROUTERS) # NoneInfo
    /\ find_router_info(args.sell_pool.dex, DEX_ROUTERS) = NoneInfo

-----------------------------------------------------------------------------
(***************************************************************************)
(* Properties of main.py's cooldown (specification SpecMain)               *)
(***************************************************************************)
AttemptRunning ==
    mpc \in {"BuyQuote", "BuySend", "BuyWait", "SellQuote", "SellSend", "SellWait"}

\* C5: an evaluation made at t with t - T < TRADE_COOLDOWN_SECONDS, T the start
\* of the latest attempt, is skipped and starts no attempt; one made at
\* t - T >= TRADE_COOLDOWN_SECONDS passes the cooldown guard; two attempts
\* never start less than TRADE_COOLDOWN_SECONDS apart.
C5_CooldownWindow ==
    /\ (last_eval.n = 1 /\ last_eval.t - last_eval.last_ts < TRADE_COOLDOWN_SECONDS)
         => ~last_eval.passed /\ ~last_eval.started
    /\ (last_eval.n = 1 /\ last_eval.t - last_eval.last_ts >= TRADE_COOLDOWN_SECONDS)
         => last_eval.passed
    /\ \A i \in 1..(Len(starts) - 1) :
         starts[i + 1] - starts[i] >= TRADE_COOLDOWN_SECONDS
    /\ (AttemptRunning \/ mpc = "Exec") => last_eval.passed

C5_Witness ==
    /\ Len(starts) >= 2
    /\ starts[2] - starts[1] = TRADE_COOLDOWN_SECONDS
    /\ last_eval.n = 1
    /\ ~last_eval.passed
    /\ last_eval.last_ts = starts[Len(starts)]
    /\ last_eval.t > last_eval.last_ts

\* C6: while an attempt is under way, whether started by main.execute_trade or
\* by trading.execute_trade, the cooldown timestamp has been written exactly
\* once for it, by the step that started it: it holds the attempt's start
\* time, and no on-chain call of the attempt came before the write.
C6_StampedOncePerStartedAttempt ==
    /\ ts_writes <= 1
    /\ AttemptRunning => /\ ts_writes = 1
                         /\ last_trade_attempt_ts = starts[Len(starts)]
    /\ (mpc = "Exec" \/ ts_writes = 0) => mcalls = <<>>
    /\ (AttemptStarted /\ pc # "Idle") => ts_writes = 1

-----------------------------------------------------------------------------
(***************************************************************************)
(* Properties of trading.resilient_rpc_call (specification SpecRpc)        *)
(***************************************************************************)
\* C10: when an invocation reverts with a data payload encoding (amountOut,
\* priceMarker, ticksCrossed, gasEstimate), resilient_rpc_call is over with
\* amountOut as its result: the revert is not raised, there is no further
\* invocation and no wait after it.
C10_QuoteRevertReturnsAmountOut ==
    rpc.last_exception.amountOut >= 0
    => /\ rpc.pc = "Done"
       /\ rpc.result.kind = "decoded"
       /\ rpc.result.word = EncodeUint(rpc.last_exception.amountOut)
       /\ Len(rpc.waits) = rpc.invoked - 1

\* The invocation reverted without a usable data payload
IsPlainRevert(o) == o.t = "ContractLogicError" /\ o.amountOut = -1
\* The invocation failed otherwise than by a revert
IsOtherFailure(o) == o.t \in {"TimeoutError", "ConnectionError"}

\* C11: once an invocation has reverted with no data payload,
\* resilient_rpc_call is over with an error: the operation is not invoked
\* again and no wait is taken after that invocation.
C11_AsStated ==
    /\ \A k \in 1..(rpc.invoked - 1) : ~IsPlainRevert(rpc.history[k])
    /\ (rpc.invoked >= 1 /\ IsPlainRevert(rpc.history[rpc.invoked]))
         => /\ Len(rpc.waits) = rpc.invoked - 1
            /\ rpc.pc = "Done" => rpc.result.kind = "raise"

\* C12: after failures that are not reverts the operation is invoked at most
\* RPC_MAX_RETRIES times in total; the wait before invocation i+1 is
\* RPC_BACKOFF_FACTOR * 2^i (the first is RPC_BACKOFF_FACTOR, each next one
\* the double), and no wait follows the last failed invocation.
C12_ExponentialBackoff ==
    /\ rpc.invoked <= rpc.max
    /\ Len(rpc.waits) <= SetMax({0, rpc.max - 1})
    /\ Len(rpc.waits) >= 1 => rpc.waits[1] = RPC_BACKOFF_FACTOR_MS
    /\ \A k \in 1..(Len(rpc.waits) - 1) : rpc.waits[k + 1] = 2 * rpc.waits[k]
    /\ ( /\ rpc.invoked >= 1
         /\ IsOtherFailure(rpc.history[rpc.invoked]) )
       => \/ rpc.pc = "Loop" /\ rpc.invoked < rpc.max /\ Len(rpc.waits) = rpc.invoked
          \/ rpc.invoked = rpc.max /\ Len(rpc.waits) = rpc.max - 1

C12_Witness ==
    /\ rpc.pc = "Done"
    /\ rpc.max = 4
    /\ rpc.invoked = 4
    /\ \A k \in 1..4 : IsOtherFailure(rpc.history[k])
    /\ rpc.waits = <<500, 1000, 2000>>

\* C13: when RPC_MAX_RETRIES (at least one) invocations were made and every
\* one failed, resilient_rpc_call is over with the final exception, whose
\* cause is the error of the last invocation; no value is returned.
C13_ExhaustedCarriesLastError ==
    ( /\ rpc.pc = "Done"
      /\ rpc.max >= 1
      /\ rpc.invoked = rpc.max
      /\ \A k \in 1..rpc.invoked :
           IsPlainRevert(rpc.history[k]) \/ IsOtherFailure(rpc.history[k]) )
    => /\ rpc.result.kind = "raise"
       /\ rpc.result.exc = RpcFailedMsg
       /\ rpc.result.cause = rpc.history[rpc.max]

C13_Witness ==
    /\ rpc.pc = "Done"
    /\ rpc.max = 3
    /\ rpc.invoked = 3
    /\ rpc.history[1].t = "TimeoutError"
    /\ rpc.history[2].t = "TimeoutError"
    /\ rpc.history[3].t = "ConnectionError"
    /\ rpc.result.cause.t = "ConnectionError"

-----------------------------------------------------------------------------
(***************************************************************************)
(* Properties of dex_utils.find_router_info (specification SpecFn)         *)
(***************************************************************************)
Resolved == fn.op = "find_router_info"

\* The first segment of a key, its text before the first '_' or '-'
KeyFirstSegment(key) ==
    LET cut == {i \in 1..Len(key) : key[i] \in {"_", "-"}}
    IN  IF cut = {} THEN key ELSE SubSeq(key, 1, SetMin(cut) - 1)

\* The directory positions whose key an identifier equals, or whose key's
\* first segment it equals
MatchingEntries(id, routers) ==
    {i \in 1..Len(routers) : id = routers[i].key \/ id = KeyFirstSegment(routers[i].key)}

\* C14 as stated: an entry matches exactly when the venueId as supplied equals
\* its key or the key's first segment; a single matching entry is returned and
\* nothing is returned when no entry matches that way.
C14_AsStated ==
    Resolved =>
      LET m == MatchingEntries(fn.dex_id, fn.routers)
      IN  /\ m = {} => fn.result = NoneInfo
          /\ Cardinality(m) = 1 => \A i \in m : fn.result = fn.routers[i].info

\* C14 (amended): an entry matches exactly when the venueId, lower-cased and
\* stripped of surrounding whitespace, equals the entry's key (compared as
\* written) or the key's first segment; a substring of a key does not match;
\* a single matching entry is returned.
C14_MatchOnNormalisedId ==
    Resolved =>
      LET m == MatchingEntries(StrStrip(StrLower(fn.dex_id)), fn.routers)
      IN  /\ m = {} <=> fn.result = NoneInfo
          /\ m # {} => \E i \in m : fn.result = fn.routers[i].info
          /\ Cardinality(m) = 1 => \A i \in m : fn.result = fn.routers[i].info

C14_Witness ==
    /\ Resolved
    /\ fn.dex_id = Str_Aero
    /\ Len(fn.routers) = 3
    /\ fn.routers[2].key = Str_aero
    /\ fn.routers[3].key = Str_baseswap
    /\ fn.result = fn.routers[2].info

\* C15: when several entries match, the one returned has the highest version
\* among them, and among those of that version it is the first in directory
\* order.
C15_HighestVersionFirstSeen ==
    Resolved =>
      LET m    == MatchingEntries(StrStrip(StrLower(fn.dex_id)), fn.routers)
          top  == SetMax({fn.routers[i].info.version : i \in m})
          best == SetMin({i \in m : fn.routers[i].info.version = top})
      IN  Cardinality(m) >= 2 => fn.result = fn.routers[best].info

C15_Witness ==
    /\ Resolved
    /\ fn.dex_id = Str_uni
    /\ Len(fn.routers) = 3
    /\ fn.routers[1].key = Str_baseswap
    /\ fn.routers[2].key = Str_uni_v3 /\ fn.routers[2].info.version = 3
    /\ fn.routers[3].key = Str_uni_v2 /\ fn.routers[3].info.version = 3
    /\ fn.result = fn.routers[2].info

\* C16: when no entry matches the venueId, find_router_info returns None (it
\* always returns: an application has a result).
C16_NoMatchReturnsNone ==
    Resolved =>
      (MatchingEntries(StrStrip(StrLower(fn.dex_id)), fn.routers) = {}
         => fn.result = NoneInfo)

C16_Witness ==
    /\ Resolved
    /\ fn.dex_id = Str_swap
    /\ Len(fn.routers) = 2
    /\ fn.routers[1].key = Str_baseswap
    /\ fn.routers[2].key = Str_uni_v2
    /\ fn.result = NoneInfo

\* C17: for every expected output e and every slippage tolerance s, the minimum
\* output placed in the swap call equals floor(e * (1 - s/100)), computed
\* exactly.
C17_MinOutIsExactFloor ==
    fn.op = "slippage" =>
      fn.result = (fn.expected * (100 - fn.percent)) \div 100

\* The routers served by the V2 strategy, and the path of each leg as
\* execute_trade provides it
V2Routers ==
    {DEX_ROUTERS[i].info.address :
       i \in {k \in 1..Len(DEX_ROUTERS) : StrategyOf(DEX_ROUTERS[k].info) = "uniswapv2"}}
LegPath(leg) ==
    IF leg = "buy" THEN <<BASE_CURRENCY_ADDRESS, TOKEN_ADDRESS>>
    ELSE <<TOKEN_ADDRESS, BASE_CURRENCY_ADDRESS>>
IsV2Quote(c) == c.op = "getAmountsOut" /\ c.arg.router \in V2Routers
IsV2SwapBuild(c) == c.op = "build_transaction" /\ c.arg.swap.router \in V2Routers

\* C18: for a V2-style leg the quote call and the swap call both use the path
\* [tokenIn, tokenOut] as provided (buy: [base, token]; sell: [token, base]);
\* the swap built for a leg is on the path quoted for that leg just before.
C18_V2PathAsProvided ==
    \A i \in 1..Len(calls) :
       /\ IsV2Quote(calls[i]) => calls[i].arg.path = LegPath(calls[i].leg)
       /\ IsV2SwapBuild(calls[i]) =>
            /\ calls[i].arg.swap.sel = LegPath(calls[i].leg)
            /\ i > 1
            /\ IsV2Quote(calls[i - 1])
            /\ calls[i - 1].leg = calls[i].leg
            /\ calls[i - 1].arg.path = calls[i].arg.swap.sel

C18_Witness ==
    \E i, j \in 1..Len(calls) :
       /\ IsV2SwapBuild(calls[i]) /\ calls[i].leg = "buy"
       /\ calls[i].arg.swap.sel = <<BASE_CURRENCY_ADDRESS, TOKEN_ADDRESS>>
       /\ IsV2SwapBuild(calls[j]) /\ calls[j].leg = "sell"
       /\ calls[j].arg.swap.sel = <<TOKEN_ADDRESS, BASE_CURRENCY_ADDRESS>>

\* C19: no strategy returns successfully with an expected output of 0: a swap
\* handed to build_transaction was never quoted 0 (prepare fails instead of
\* returning a leg whose minimum output is 0).
C19_ZeroQuoteIsRejected ==
    \A i \in 1..Len(calls) :
       calls[i].op = "build_transaction" => calls[i].arg.swap.quoted # 0

\* The calls of the V3 strategy that request a quote or carry its swap
IsV3QuoterCall(c) == c.op \in {"quoteExactInputSingle", "quoteExactInput"}
IsV3SwapBuild(c) == c.op = "build_transaction" /\ c.arg.swap.fn = "exactInputSingle"
IsPoolCheck(c) == c.op \in {"slot0", "liquidity"}
PoolCheckPassed(c) ==
    /\ c.ans.kind = "value"
    /\ IF c.op = "slot0" THEN c.ans.val[1] # 0 ELSE c.ans.val # 0

\* C20: the V3 strategy requests no quote and builds no swap call unless the
\* chosen pool answered a non-zero price marker (slot0) and then a non-zero
\* active liquidity, both before the first quoter call of the leg; a pool
\* check that does not pass is the last call of the attempt, which fails.
C20_V3QuotesOnlyLivePools ==
    /\ \A i \in 1..Len(calls) :
         (IsV3QuoterCall(calls[i]) \/ IsV3SwapBuild(calls[i])) =>
           \E j, k \in 1..(i - 1) :
              /\ j < k
              /\ calls[j].op = "slot0" /\ calls[j].leg = calls[i].leg
              /\ calls[k].op = "liquidity" /\ calls[k].leg = calls[i].leg
              /\ calls[k].arg.pool = calls[j].arg.pool
              /\ PoolCheckPassed(calls[j]) /\ PoolCheckPassed(calls[k])
    /\ \A j \in 1..Len(calls) :
         (IsPoolCheck(calls[j]) /\ ~PoolCheckPassed(calls[j])) =>
           /\ j = Len(calls)
           /\ pc = "Idle"
           /\ outcome.status = "unexpected_error"

C20_Witness ==
    /\ pc = "Idle"
    /\ Len(calls) > 1
    /\ calls[Len(calls)].op = "liquidity"
    /\ calls[Len(calls)].ans = Value(0)
    /\ calls[Len(calls) - 1].op = "slot0"
    /\ PoolCheckPassed(calls[Len(calls) - 1])
    /\ outcome = Outcome("unexpected_error", "Pool initialised but has zero active liquidity")

\* C21: the Solidly strategy requires a configured factory address: when the
\* venue descriptor has none, prepare fails without any on-chain call and
\* without a route (volatile or stable) being chosen.
C21_SolidlyRequiresFactory ==
    (fn.op = "prepare_solidly_swap" /\ fn.router_info.factory = "None") =>
      /\ ~fn.result.ok
      /\ fn.result.calls = <<>>
      /\ fn.result.swap = [fn |-> "None"]
      /\ fn.result.msg = "no factory address in config"

C21_Witness ==
    /\ fn.op = "prepare_solidly_swap"
    /\ fn.router_info.factory = "None"
    /\ fn.pair_address = "PairBuy"
    /\ fn.ch = SolidlyBase
    /\ ~fn.result.ok
    /\ fn.result.calls = <<>>

\* The simulated swap of the Aggregator strategy and the swap it returns
IsInchProbe(c) == c.op = "swap.call"
IsInchSwapBuild(c) == c.op = "build_transaction" /\ c.arg.swap.fn = "swap"

\* C22: the Aggregator strategy obtains its quote by a read-only simulation of
\* a swap carrying the placeholder minimum 1, made right after the leg's reads
\* with nothing submitted in between; the swap it returns is built right after
\* the simulation and carries the slippage-adjusted minimum computed from the
\* simulated return amount.
C22_AggregatorQuotesBySimulation ==
    \A i \in 1..Len(calls) :
       /\ IsInchProbe(calls[i]) =>
            /\ calls[i].kind = "read"
            /\ calls[i].arg.minReturn = 1
            /\ i > 1 /\ calls[i - 1].kind = "read"
       /\ IsInchSwapBuild(calls[i]) =>
            /\ i > 1
            /\ IsInchProbe(calls[i - 1])
            /\ calls[i - 1].leg = calls[i].leg
            /\ calls[i - 1].ans.kind = "value"
            /\ calls[i].arg.swap.quoted = calls[i - 1].ans.val[1]
            /\ calls[i].arg.swap.min_out = SlippageMin(calls[i - 1].ans.val[1])

C22_Witness ==
    \E i \in 2..Len(calls) :
       /\ IsInchSwapBuild(calls[i])
       /\ calls[i].leg = "sell"
       /\ IsInchProbe(calls[i - 1])
       /\ calls[i - 1].ans = Value(<<100, 1>>)
       /\ calls[i].arg.swap.min_out = 99

\* The reads that supply a leg's nonce and fee parameters
ReadsOfLegBefore(op, leg, i) ==
    {j \in 1..(i - 1) : calls[j].op = op /\ calls[j].kind = "read" /\ calls[j].leg = leg}

\* C23: for each leg the nonce, the priority fee and the base fee (latest
\* block) are read from the chain for that leg before its transaction is
\* built; the sell transaction is not built on fee values read for the buy.
C23_NonceAndFeesFreshPerLeg ==
    \A i \in 1..Len(calls) :
       calls[i].op = "build_transaction" =>
         /\ ReadsOfLegBefore("get_transaction_count", calls[i].leg, i) # {}
         /\ ReadsOfLegBefore("max_priority_fee", calls[i].leg, i) # {}
         /\ ReadsOfLegBefore("get_block", calls[i].leg, i) # {}

\* A wait for a receipt that ended with the 120-second timeout
IsReceiptTimeout(c) == c.op = "wait_for_transaction_receipt" /\ c.arg = NoReceipt

\* C24: when the wait for a leg's receipt times out, the attempt fails: the
\* wait is the last call of the attempt, execute_trade is back to Idle with an
\* error, the leg was submitted once; after a buy timeout there is no
\* settlement parsing and no sell step.
C24_ReceiptTimeoutFailsAttempt ==
    \A i \in 1..Len(calls) :
       IsReceiptTimeout(calls[i]) =>
         /\ i = Len(calls)
         /\ pc = "Idle"
         /\ outcome = Outcome("unexpected_error", "TimeExhausted")
         /\ Cardinality({j \in 1..Len(calls) :
                           calls[j].kind = "send" /\ calls[j].leg = calls[i].leg}) = 1
         /\ calls[i].leg = "buy" =>
              /\ CallsWhere(IsParse) = {}
              /\ CallsWhere(IsSellStep) = {}

C24_Witness ==
    /\ pc = "Idle"
    /\ Len(calls) > 0
    /\ IsReceiptTimeout(calls[Len(calls)])
    /\ calls[Len(calls)].leg = "sell"
    /\ CallsWhere(IsBuyReceiptOk) # {}
    /\ outcome.status = "unexpected_error"

\* The attempt is over with the buy confirmed and no confirmed sell: the
\* wallet holds the bought token
IsSellReceiptOk(c) ==
    c.op = "wait_for_transaction_receipt" /\ c.leg = "sell" /\ c.arg.status = 1
OpenPosition ==
    /\ pc = "Idle" /\ outcome.status # "none"
    /\ CallsWhere(IsBuyReceiptOk) # {}
    /\ CallsWhere(IsSellReceiptOk) = {}

\* The conditions execute_trade reports for attempts that end with no
\* position: the skips of the pre-flight checks, the generic error of the
\* except clause (failed pre-flight read, failed buy quote) and the reverted buy
NoPositionConditions ==
    {"skipped_not_configured", "skipped_router_not_found", "skipped_insufficient_balance",
     "skipped_no_usd_value", "skipped_liquidity_impact", "unexpected_error", "buy_reverted"}

\* C25: every attempt that ends with an open position is reported with a
\* condition that is not one of those reported for attempts ending with no
\* position.
C25_OpenPositionReportedDistinctly ==
    OpenPosition => outcome.status \notin NoPositionConditions

\* A state-changing step: a transaction signed or handed to the network
IsSignOrSubmit(c) == c.kind \in {"sign", "send"}

\* C26: if a pre-flight read or the buy leg's preparation fails, the attempt
\* ends having signed and submitted nothing: a transaction is signed or sent
\* only after the buy leg was prepared and its swap built, and an attempt
\* that is over without a prepared buy holds no sign or send call.
C26_NothingSubmittedBeforeBuyPrepared ==
    LET sends == CallsWhere(IsSignOrSubmit)
    IN  /\ loc.swap_function.fn = "None" => sends = {}
        /\ sends # {} =>
             \E b \in 1..(SetMin(sends) - 1) :
                /\ calls[b].op = "build_transaction" /\ calls[b].leg = "buy"
                /\ calls[b].arg.swap = loc.swap_function
                /\ \A j \in 1..b : calls[j].kind \in {"read", "build"}

C26_Witness ==
    /\ pc = "Idle"
    /\ outcome = Outcome("unexpected_error", "No live V3 pool for pair")
    /\ loc.swap_function.fn = "None"
    /\ Len(calls) > 0
    /\ calls[Len(calls)].leg = "buy"
    /\ CallsWhere(IsSignOrSubmit) = {}

\* The fee-adjusted spread (sell*(1 - sellFee) - buy*(1 + buyFee)) /
\* (buy*(1 + buyFee)) * 100 reaches the threshold; fees in basis points
FeeAdjustedSpreadReached(buy_pool, sell_pool) ==
    LET net_sell == sell_pool.price * (10000 - sell_pool.feeBps)
        net_buy  == buy_pool.price * (10000 + buy_pool.feeBps)
    IN  (net_sell - net_buy) * 100 >= MIN_SPREAD_PERCENT * net_buy

\* C27: a trade attempt is triggered between the cheapest and the dearest pool
\* only when their fee-adjusted spread reaches the threshold.
C27_TriggerOnFeeAdjustedSpread ==
    mpc = "Exec" => FeeAdjustedSpreadReached(mloc.buy_pool, mloc.sell_pool)

\* The factory probes of a V3 preparation, in the order they were made
V3Prepared == fn.op = "prepare_uniswap_v3_swap"
IsGetPool(c) == c.op = "getPool"
FactoryProbes == SelectSeq(fn.result.calls, IsGetPool)
ProbesFollow(order) ==
    /\ Len(FactoryProbes) <= Len(order)
    /\ \A j \in 1..Len(FactoryProbes) : FactoryProbes[j].arg.fee = order[j]
FirstLiveTierChosen ==
    LET n == Len(FactoryProbes)
    IN  n > 0 =>
          /\ \A j \in 1..(n - 1) : FactoryProbes[j].ans \in {"0x0", "nocode"}
          /\ FactoryProbes[n].ans \in {"0x0", "nocode"} =>
                /\ n = 5
                /\ ~fn.result.ok
                /\ fn.result.msg = "No live V3 pool for pair"
          /\ fn.result.ok =>
                /\ FactoryProbes[n].ans = "live"
                /\ fn.result.swap.sel[3] = FactoryProbes[n].arg.fee

\* C28 (as stated): the factory lookup probes the fee tiers in the order 0.01%,
\* 0.05%, 0.25%, 0.30%, 1% and selects the first tier with a live pool.
C28_AsStated ==
    V3Prepared => (ProbesFollow(<<100, 500, 2500, 3000, 10000>>) /\ FirstLiveTierChosen)

\* C28 (amended): the factory lookup probes the fee tiers in the order 0.05%,
\* 0.30%, 1%, 0.25%, 0.01% and selects the first tier whose pool address is
\* non-zero and has code; no tier is probed after a hit, and when none of the
\* five yields a live pool prepare fails with "No live V3 pool".
C28_ProbesInCodeOrder ==
    V3Prepared => (ProbesFollow(<<500, 3000, 10000, 2500, 100>>) /\ FirstLiveTierChosen)

C28_Witness ==
    /\ V3Prepared
    /\ fn.pair_address = "None"
    /\ fn.ch.pools = <<"0x0", "nocode", "0x0", "live", "live">>
    /\ Len(FactoryProbes) = 4
    /\ fn.result.ok
    /\ fn.result.swap.sel[3] = 2500

\* The quoter calls of a V3 preparation and whether the strategy got an
\* amount out of each
SingleHopQuotes == SelectSeq(fn.result.calls, LAMBDA c : c.op = "quoteExactInputSingle")
PathQuotes      == SelectSeq(fn.result.calls, LAMBDA c : c.op = "quoteExactInput")
SingleHopFailed == Len(SingleHopQuotes) = 1 /\ SingleHopQuotes[1].ans.kind # "value"
PathQuoteFailed == Len(PathQuotes) = 1 /\ PathQuotes[1].ans.kind = "raise"

\* C29: the V3 strategy tries the single-hop quoter call, then the
\* path-encoded quoter call, then an estimate computed from the pool's own
\* state: the path-encoded call is made only after the single-hop call
\* failed, and when both quoter calls have failed a third source is read
\* after them before prepare gives up.
C29_ThreeQuoteSourcesInOrder ==
    V3Prepared =>
      /\ Len(PathQuotes) = 1 => SingleHopFailed
      /\ (SingleHopFailed /\ PathQuoteFailed) =>
            \/ fn.result.ok
            \/ fn.result.calls[Len(fn.result.calls)].op # "quoteExactInput"

\* C30: whenever the single-hop quoter call yields an amount - returned by the
\* call, or decoded by resilient_rpc_call from a revert payload - no
\* path-encoded fallback call is made and that amount is the expected output
\* of the leg.
C30_PrimaryAmountIsUsed ==
    (V3Prepared /\ Len(SingleHopQuotes) = 1
       /\ SingleHopQuotes[1].ans.kind \in {"value", "decoded"}) =>
      LET amount == IF SingleHopQuotes[1].ans.kind = "value"
                      THEN SingleHopQuotes[1].ans.val[1]
                      ELSE SingleHopQuotes[1].ans.val
      IN  /\ Len(PathQuotes) = 0
          /\ fn.result.ok
          /\ fn.result.swap.quoted = amount

\* The calls of a Solidly preparation
SolidlyPrepared == fn.op = "prepare_solidly_swap"
SolidlyQuotes == SelectSeq(fn.result.calls, LAMBDA c : c.op = "getAmountsOut")

\* C31: the stability flag is discovered from the factory: the pair whose
\* reserves are checked was looked up there (getPool, volatile variant first)
\* beforehand, and a quote is requested only after both reserves of that pair
\* were read non-zero.
C31_AsStated ==
    SolidlyPrepared =>
      LET cs == fn.result.calls
      IN  \A i \in 1..Len(cs) :
             /\ cs[i].op = "getReserves" =>
                  \E j \in 1..(i - 1) : cs[j].op = "getPool"
             /\ cs[i].op = "getAmountsOut" =>
                  \E j \in 1..(i - 1) :
                     /\ cs[j].op = "getReserves"
                     /\ cs[j].ans.kind = "value"
                     /\ cs[j].ans.val[1] # 0 /\ cs[j].ans.val[2] # 0

\* C32: when the quote requested with the volatile flag fails, the quote is
\* requested again with the stable flag; when that second quote succeeds the
\* swap is built with the stable flag.
C32_StableTriedAfterVolatileFails ==
    (SolidlyPrepared /\ Len(SolidlyQuotes) > 0 /\ SolidlyQuotes[1].ans.kind = "raise") =>
      /\ Len(SolidlyQuotes) = 2
      /\ SolidlyQuotes[2].arg.route[3] = TRUE
      /\ SolidlyQuotes[2].ans.kind = "value" =>
            (fn.result.ok /\ fn.result.swap.sel[3] = TRUE)

\* ---------------------------------------------------------------------------
\* C33: resilient_rpc_call returns a decoded amount as success only for a
\* revert payload that carries the four-field quote encoding; a revert with any
\* other payload is never returned as a successful quote.
\* The call's last invocation is the one whose revert was decoded.
C33_OnlyQuotePayloadsDecodeAsSuccess ==
    rpc.result.kind = "decoded" =>
        /\ rpc.history # <<>>
        /\ rpc.history[Len(rpc.history)].amountOut >= 0

\* ---------------------------------------------------------------------------
\* C34: for a V3 leg the settlement verifier first uses the Swap event of the
\* pool inferred from the receipt (recipient = the wallet) and takes the
\* magnitude of the negative delta of that swap; the generic transfer scan is
\* used only when that path gives no amount - no pool inferred, no Swap event
\* of that pool to the wallet, or a parsing error; a non-V3 leg uses only the
\* scan.
ReceiptParsed == fn.op = "parse_receipt_for_amount_out"

\* the wallet paid base currency to some pool in this receipt
PoolInferable(logs) ==
    \E i \in 1..Len(logs) :
        /\ logs[i].address = BASE_CURRENCY_ADDRESS
        /\ logs[i].topics = <<"Transfer", ACCOUNT, logs[i].topics[3]>>

\* positions of the Swap events to the wallet that carry a negative delta
WalletSwaps(logs) ==
    {i \in 1..Len(logs) :
        /\ logs[i].topics[1] = "Swap"
        /\ logs[i].topics[3] = ACCOUNT
        /\ (logs[i].data[1] < 0 \/ logs[i].data[2] < 0)}

\* positions of the target token's transfers to the wallet
WalletTransfers(logs) ==
    {i \in 1..Len(logs) :
        /\ logs[i].address = TOKEN_ADDRESS
        /\ logs[i].topics = <<"Transfer", logs[i].topics[2], ACCOUNT>>}

SwapPathApplies ==
    /\ fn.router_info.version = 3
    /\ PoolInferable(fn.receipt.logs)
    /\ WalletSwaps(fn.receipt.logs) # {}

\* the pool inferred from the receipt: the one the wallet paid first
InferredPool(logs) ==
    LET paid == {i \in 1..Len(logs) :
                    /\ logs[i].address = BASE_CURRENCY_ADDRESS
                    /\ logs[i].topics = <<"Transfer", ACCOUNT, logs[i].topics[3]>>}
    IN  IF paid = {} THEN "None" ELSE logs[SetMin(paid)].topics[3]

\* positions of the Swap events of the inferred pool to the wallet
PoolSwaps(logs) == {i \in WalletSwaps(logs) : logs[i].address = InferredPool(logs)}

\* the Swap path yields an amount: a V3 leg, a pool inferred, no parsing error
\* (the pool ABI selected for the venue declares the Swap event) and a Swap
\* event of that pool to the wallet
SwapPathYields ==
    /\ fn.router_info.version = 3
    /\ InferredPool(fn.receipt.logs) # "None"
    /\ get_v3_pool_abi(fn.dex_name) = "UNISWAP_V3_POOL_ABI"
    /\ PoolSwaps(fn.receipt.logs) # {}

C34_SwapEventFirstThenTransferScan ==
    ReceiptParsed =>
        LET logs == fn.receipt.logs
        IN  IF SwapPathYields
              THEN LET d == logs[SetMin(PoolSwaps(logs))].data
                   IN  fn.result = Abs(Min2(d[1], d[2]))
            ELSE IF WalletTransfers(logs) = {} THEN fn.result = 0
            ELSE fn.result = logs[SetMin(WalletTransfers(logs))].data[1]

\* ---------------------------------------------------------------------------
\* C35: the generic scan returns the value of the first log, in receipt order,
\* that is a Transfer of the output token to the wallet; other tokens and other
\* recipients are ignored, later matching transfers are not added, and the
\* result is 0 when no log matches.
C35_FirstTransferToWallet ==
    (ReceiptParsed /\ ~SwapPathApplies) =>
        LET logs == fn.receipt.logs
            hits == WalletTransfers(logs)
        IN  /\ hits = {} => fn.result = 0
            /\ hits # {} => fn.result = logs[SetMin(hits)].data[1]

\* a transfer to someone else, then two transfers to the wallet: the first counts
C35_Witness ==
    /\ ReceiptParsed
    /\ fn.router_info.version = 2
    /\ fn.receipt.logs = <<LogTokenToOther, LogTokenToMe, [LogTokenToMe EXCEPT !.data = <<5>>]>>
    /\ fn.result = 7

\* ---------------------------------------------------------------------------
\* The pool a quote call addresses: (tokenIn, tokenOut, fee) for the V3 quoter,
\* the route (tokenIn, tokenOut, stable, factory) for Solidly, the path for V2
QuoteSelector(c) ==
    IF c.op = "quoteExactInputSingle" THEN <<c.arg.token_in, c.arg.token_out, c.arg.fee>>
    ELSE IF c.op = "quoteExactInput" THEN <<c.arg.path[1], c.arg.path[3], c.arg.path[2]>>
    ELSE IF "route" \in DOMAIN c.arg THEN c.arg.route
    ELSE c.arg.path
IsPoolQuote(c) == c.op \in {"quoteExactInputSingle", "quoteExactInput", "getAmountsOut"}
IsPoolSwapBuild(c) == c.op = "build_transaction" /\ c.arg.swap.fn # "swap"

\* C36: the swap call of a leg uses the pool selector of the quote call its
\* minimum output was computed from - the quote requested last before the swap
\* was built, in the same leg: same fee tier (V3), same stable flag and factory
\* (Solidly), same path (V2).
C36_SwapOnQuotedPool ==
    \A i \in 1..Len(calls) :
       IsPoolSwapBuild(calls[i]) =>
         /\ i > 1
         /\ IsPoolQuote(calls[i - 1])
         /\ calls[i - 1].leg = calls[i].leg
         /\ QuoteSelector(calls[i - 1]) = calls[i].arg.swap.sel

\* a V3 swap on the 2500 tier found by the factory search, and a Solidly swap
C36_Witness ==
    /\ \E i \in 1..Len(calls) :
          IsV3SwapBuild(calls[i]) /\ calls[i].arg.swap.sel[3] = 2500
    /\ \E i \in 1..Len(calls) :
          IsPoolSwapBuild(calls[i]) /\ Len(calls[i].arg.swap.sel) = 4

\* ---------------------------------------------------------------------------
IsReceiptParse(c) == c.op = "_parse_receipt_for_amount_out"
IsSellSwapBuild(c) == c.op = "build_transaction" /\ c.leg = "sell"

\* C37: the sell leg's amountIn is exactly the amount the settlement verifier
\* decoded from the buy receipt, whatever the protocol family of the sell venue
\* (never the buy leg's expected output or minimum output).
C37_SellAmountIsDecodedAmount ==
    \A i \in 1..Len(calls) :
       IsSellSwapBuild(calls[i]) =>
         \E j \in 1..(i - 1) :
            /\ IsReceiptParse(calls[j])
            /\ calls[i].arg.swap.amount_in = calls[j].arg.amount

\* a sell of the 7 units decoded from the receipt, after a buy quoted at 100
C37_Witness ==
    \E i, j \in 1..Len(calls) :
       /\ IsSellSwapBuild(calls[i])
       /\ calls[i].arg.swap.amount_in = 7
       /\ calls[j].op = "build_transaction" /\ calls[j].leg = "buy"
       /\ calls[j].arg.swap.quoted = 100
       /\ calls[j].arg.swap.min_out # 7

\* ---------------------------------------------------------------------------
\* The blocks of execute_trade after router resolution, in program order
TradePositions ==
    << "Preflight", "BuySetup", "BuyPrepare", "BuyBuild", "BuySend", "BuyWait",
       "ParseReceipt", "SellNonce", "SellPrepare", "SellBuild", "SellSend", "SellWait" >>
PositionOf(p) == CHOOSE k \in 1..Len(TradePositions) : TradePositions[k] = p

\* A running execute_trade can take its next step.  A prepare step is possible
\* exactly when the selected strategy hands back some result.
CanStep ==
    IF pc = "BuyPrepare"
      THEN PrepareResults(loc.buy_router_info, args.buy_pool.dex, loc.amount_in_wei,
                          BASE_CURRENCY_ADDRESS, TOKEN_ADDRESS,
                          args.buy_pool.pairAddress, "buy") # {}
    ELSE IF pc = "SellPrepare"
      THEN PrepareResults(loc.sell_router_info, args.sell_pool.dex,
                          loc.amount_received_wei, TOKEN_ADDRESS,
                          BASE_CURRENCY_ADDRESS, args.sell_pool.pairAddress, "sell") # {}
    ELSE ENABLED (\/ T_Preflight \/ T_BuySetup \/ T_BuyBuild \/ T_BuySend \/ T_BuyWait
                  \/ T_ParseReceipt \/ T_SellNonce \/ T_SellBuild \/ T_SellSend
                  \/ T_SellWait)

\* C38: once the routers are resolved, every execution of execute_trade ends by
\* returning to its caller (Idle) with a reported outcome, whatever fails: a
\* running execution is at one of its blocks and can always take a step, and
\* every step either returns or moves to a later block, so that it returns
\* after at most twelve steps.
C38_AlwaysReturnsToCaller ==
    /\ [](pc # "Idle" =>
            /\ \E k \in 1..Len(TradePositions) : TradePositions[k] = pc
            /\ CanStep)
    /\ [][pc # "Idle" =>
            \/ pc' = "Idle" /\ outcome'.status \notin {"none", "running"}
            \/ pc' # "Idle" /\ PositionOf(pc') > PositionOf(pc)]_vars

\* the last wait of the sell leg timed out and execute_trade still returned
C38_Witness ==
    /\ pc = "Idle"
    /\ outcome = Outcome("unexpected_error", "TimeExhausted")
    /\ calls # <<>>
    /\ calls[Len(calls)].leg = "sell"

\* ---------------------------------------------------------------------------
\* C39: for every configured RPC_MAX_RETRIES (0 included) a call of
\* resilient_rpc_call invokes the wrapped operation at least once and at most
\* RPC_MAX_RETRIES times, never again after an invocation succeeded, and returns
\* the value of that successful invocation.
C39_InvokedAtLeastOnce ==
    /\ rpc.invoked <= SetMax({1, rpc.max})
    /\ \A k \in 1..(Len(rpc.history) - 1) : rpc.history[k].t # "return"
    /\ rpc.pc = "Done" =>
          /\ rpc.invoked >= 1
          /\ rpc.history[rpc.invoked].t = "return" =>
                rpc.result.kind = "return" /\ rpc.result.val = rpc.history[rpc.invoked].v

\* ---------------------------------------------------------------------------
\* The strategy a quoting call belongs to, and the descriptor of a leg's venue
StrategyCalls ==
    {"swap.call", "getReserves", "getAmountsOut", "getPool", "fee", "slot0", "liquidity",
     "quoteExactInputSingle", "quoteExactInput"}
StrategyOfCall(c) ==
    IF c.op = "swap.call" THEN "Aggregator"
    ELSE IF c.op = "getReserves" THEN "Solidly"
    ELSE IF c.op = "getAmountsOut"
      THEN (IF "route" \in DOMAIN c.arg THEN "Solidly" ELSE "V2")
    ELSE "V3"
LegRouterInfo(leg) == IF leg = "buy" THEN loc.buy_router_info ELSE loc.sell_router_info

\* the rule: type "1inch" first, then the version, "solidly" within version 2
SelectionRule(info) ==
    IF info.type = "1inch" THEN "Aggregator"
    ELSE IF info.version = 2 /\ info.type = "solidly" THEN "Solidly"
    ELSE IF info.version = 2 THEN "V2"
    ELSE IF info.version = 3 THEN "V3"
    ELSE "abort"

\* C40: every quoting call of a leg (buy or sell alike) belongs to the one
\* strategy the rule selects for the descriptor of that leg's venue, and a leg
\* whose descriptor has another version gets no quoting call and no
\* transaction built, signed or submitted.
C40_OneStrategyByDescriptor ==
    \A i \in 1..Len(calls) :
       LET c == calls[i]
       IN  /\ c.op \in StrategyCalls =>
                StrategyOfCall(c) = SelectionRule(LegRouterInfo(c.leg))
           /\ (c.leg \in {"buy", "sell"} /\ c.kind \in {"build", "sign", "send"}) =>
                SelectionRule(LegRouterInfo(c.leg)) # "abort"

\* bought through the aggregator (version 6, type 1inch), then the sell venue
\* of version 4 ended the attempt with nothing built for the sell leg
C40_Witness ==
    /\ pc = "Idle"
    /\ outcome.status = "unexpected_error"
    /\ loc.buy_router_info.type = "1inch" /\ loc.buy_router_info.version = 6
    /\ loc.sell_router_info.version = 4
    /\ \E i \in 1..Len(calls) : calls[i].op = "swap.call" /\ calls[i].leg = "buy"
    /\ \E i \in 1..Len(calls) : calls[i].op = "get_transaction_count" /\ calls[i].leg = "sell"
    /\ \A i \in 1..Len(calls) : ~(calls[i].kind = "build" /\ calls[i].leg = "sell")

=============================================================================
